---- MODULE Spec2Model ----
(***************************************************************************)
(* A model of tiny-qr: the segment encoders and the version / error        *)
(* correction selector of src/src/encoding.rs, the capacity tables of      *)
(* src/src/qr_version.rs, the bit buffer of src/src/buffer.rs and the      *)
(* builder of src/src/qrcode.rs.                                           *)
(*                                                                         *)
(* A text is a sequence of Unicode code points.  A Rust panic is an        *)
(* outcome of its own: a buffer carries `panicked`, and the result of an   *)
(* operation has status "Panic".                                           *)
(***************************************************************************)
EXTENDS Integers, Sequences, FiniteSets, TLC

VARIABLES
    text,                          \* the payload handed to the operation
    version_restriction,           \* [kind, version]
    error_correction_restriction,  \* [kind, level]
    result,                        \* outcome of the operation applied to the inputs
    builder,                       \* QrCodeBuilder's fields
    built,                         \* outcome of QrCodeBuilder::build
    target,                        \* a Buffer that is being appended to
    call,                          \* the last call on `target` and the buffer before it
    iter,                          \* a DrawIterator, its QrCode and what it yielded last
    masking,                       \* a Matrix and what the mask operations made of it
    format,                        \* a FormatEncoder and what encode() returned
    block_iter,                    \* a BlockLengthIterator and the blocks it yielded
    placing,                       \* a Matrix that the placement functions work on
    position,                      \* a PositionIterator and the positions it yielded
    codewords,                     \* a buffer of codewords and its error correction
    interleave,                    \* a BlockIterator and the codewords it yielded
    proportion                     \* a Masked matrix and its score_proportion

encodingVars ==
    <<text, version_restriction, error_correction_restriction, result, builder, built>>
bufferVars == <<target, call>>
unitVars == <<iter, masking, format, block_iter>>
stageVars == <<placing, position, codewords, interleave, proportion>>

vars == <<encodingVars, bufferVars, unitVars, stageVars>>

\* the value of a variable that the specification at hand leaves alone
Idle == "idle"

---------------------------------------------------------------------------
(* Bounds of the model *)

\* The version numbers handed in are 0..MaxVersionInput: 0 and every number
\* above 5 lie outside the implemented tables.
MaxVersionInput == 6

\* Patterned payloads have every length 0..MaxPatternLen.
MaxPatternLen == 42

\* Payloads over ShortAlphabet have every length 0..MaxShortLen.
MaxShortLen == 2

---------------------------------------------------------------------------
(* Option<T>: None, and Some(x) where the values are not strings *)
None == "None"

Some(x) == <<x>>

Nothing == <<>>

(* src/src/error_correction.rs *)
ErrorCorrectionLevel == {"Low", "Medium", "Quartile", "High"}

\* derive(Ord): the declaration order of the enum
LevelOrd(e) ==
    CASE e = "Low" -> 0
      [] e = "Medium" -> 1
      [] e = "Quartile" -> 2
      [] e = "High" -> 3

increment(e) ==
    CASE e = "Low" -> "Medium"
      [] e = "Medium" -> "Quartile"
      [] e = "Quartile" -> "High"
      [] e = "High" -> None

---------------------------------------------------------------------------
(* src/src/qr_version.rs *)

\* Version::decrement: Some(version - 1) when version > 1, else None (-1 here)
\* version_to_size
version_to_size(version) == version * 4 + 17

NoVersion == -1

\* a decrement that stops one version early
decrement_stops_at_2(v) == IF v > 2 THEN v - 1 ELSE NoVersion

decrement(v) == IF v > 1 THEN v - 1 ELSE NoVersion

character_count_indicator_bit_length_panics(v) == v > 40

character_count_indicator_bit_length(v, encoding) ==
    CASE encoding = "Numeric" ->
            (IF v <= 9 THEN 10 ELSE IF v <= 26 THEN 12 ELSE 14)
      [] encoding = "Alphanumeric" ->
            (IF v <= 9 THEN 9 ELSE IF v <= 26 THEN 11 ELSE 13)
      [] encoding = "Byte" ->
            (IF v <= 9 THEN 8 ELSE 16)

total_codeword_count_panics(v) == v \notin 1..25

TotalCodewordTable ==
    <<26, 44, 70, 100, 134, 172, 196, 242, 292, 346, 404, 466, 532, 581, 655,
      733, 815, 901, 991, 1085, 1156, 1258, 1364, 1474, 1588>>

total_codeword_count(v) == TotalCodewordTable[v]

error_correction_codeword_blocks_count_panics(v, e) == v \notin 1..5

\* (total error correction codewords, block count)
BlocksTable ==
    [Low      |-> << <<7, 1>>,  <<10, 1>>, <<15, 1>>, <<20, 1>>, <<26, 1>> >>,
     Medium   |-> << <<10, 1>>, <<16, 1>>, <<26, 1>>, <<36, 2>>, <<48, 2>> >>,
     Quartile |-> << <<13, 1>>, <<22, 1>>, <<36, 2>>, <<52, 2>>, <<72, 4>> >>,
     High     |-> << <<17, 1>>, <<28, 1>>, <<44, 2>>, <<64, 4>>, <<88, 4>> >>]

error_correction_codeword_blocks_count(v, e) == BlocksTable[e][v]

\* total_codeword_count() is evaluated first, then the block table
data_codeword_count_panics(v, e) ==
    total_codeword_count_panics(v) \/ error_correction_codeword_blocks_count_panics(v, e)

data_codeword_count(v, e) ==
    total_codeword_count(v) - error_correction_codeword_blocks_count(v, e)[1]

data_codeword_bit_len(v, e) == data_codeword_count(v, e) * 8

---------------------------------------------------------------------------
(* src/src/buffer.rs *)

\* data: [u8; 1024]
BufferCapacity == 1024

\* `data` holds the backing array up to the last byte ever written; every
\* byte behind it still has the 0 that Buffer::new() put there.
Buffer_new == [data |-> <<>>, bit_len |-> 0, panicked |-> FALSE]

PanickedBuffer == [data |-> <<>>, bit_len |-> 0, panicked |-> TRUE]

\* self.data[index], index counted from 0
ByteAt(buf, index) == IF index < Len(buf.data) THEN buf.data[index + 1] ELSE 0

RECURSIVE Pow2(_)
Pow2(n) == IF n = 0 THEN 1 ELSE 2 * Pow2(n - 1)

\* number & (1 << index) != 0
BitSet(number, index) == (number \div Pow2(index)) % 2 = 1

\* a | mask, mask a single bit
BitOr(a, index) == IF BitSet(a, index) THEN a ELSE a + Pow2(index)

\* self.data[index] = value, index counted from 0
SetByte(data, index, value) ==
    IF index < Len(data)
    THEN [data EXCEPT ![index + 1] = value]
    ELSE data \o [i \in 1..(index - Len(data)) |-> 0] \o <<value>>

byte_bit_len(buf) == <<buf.bit_len \div 8, buf.bit_len % 8>>

\* a variant that stores the mask instead of or-ing it into the byte
append_bit_storing_mask(buf, bit) ==
    IF buf.panicked THEN buf
    ELSE LET byte_len == buf.bit_len \div 8
             bit_len  == buf.bit_len % 8
         IN IF bit
            THEN IF byte_len >= BufferCapacity
                 THEN PanickedBuffer
                 ELSE [buf EXCEPT !.data = SetByte(@, byte_len, Pow2(7 - bit_len)),
                                  !.bit_len = @ + 1]
            ELSE [buf EXCEPT !.bit_len = @ + 1]

append_bit(buf, bit) ==
    IF buf.panicked THEN buf
    ELSE LET byte_len == buf.bit_len \div 8
             bit_len  == buf.bit_len % 8
         IN IF bit
            THEN IF byte_len >= BufferCapacity
                 THEN PanickedBuffer      \* index out of bounds
                 ELSE [buf EXCEPT
                         !.data = SetByte(@, byte_len, BitOr(ByteAt(buf, byte_len), 7 - bit_len)),
                         !.bit_len = @ + 1]
            ELSE [buf EXCEPT !.bit_len = @ + 1]

RECURSIVE append_bits(_, _)
append_bits(buf, bits) ==
    IF bits = <<>> \/ buf.panicked THEN buf
    ELSE append_bits(append_bit(buf, Head(bits)), Tail(bits))

\* a variant that appends the bits index = 0 up to n-1
RECURSIVE append_number_lsb_first(_, _, _)
append_number_lsb_first(buf, number, n) ==
    IF n = 0 \/ buf.panicked THEN buf
    ELSE append_bit(append_number_lsb_first(buf, number, n - 1), BitSet(number, n - 1))

\* for index in (0..bit_len).rev(): the bits index = n-1 down to 0
RECURSIVE append_number_from(_, _, _)
append_number_from(buf, number, n) ==
    IF n = 0 \/ buf.panicked THEN buf
    ELSE append_number_from(append_bit(buf, BitSet(number, n - 1)), number, n - 1)

append_number(buf, number, bit_len) == append_number_from(buf, number, bit_len)

append_byte(buf, byte) ==
    IF buf.panicked THEN buf
    ELSE LET byte_len == buf.bit_len \div 8
             bit_len  == buf.bit_len % 8
         IN IF bit_len = 0
            THEN IF byte_len >= BufferCapacity
                 THEN PanickedBuffer      \* index out of bounds
                 ELSE [buf EXCEPT !.data = SetByte(@, byte_len, byte),
                                  !.bit_len = @ + 8]
            ELSE append_number_from(buf, byte, 8)

\* for byte in bytes: the bytes lo..hi in order, the range split in halves to
\* keep the evaluation shallow
RECURSIVE append_bytes_range(_, _, _, _)
append_bytes_range(buf, bytes, lo, hi) ==
    IF lo > hi \/ buf.panicked THEN buf
    ELSE IF lo = hi THEN append_byte(buf, bytes[lo])
    ELSE LET mid == (lo + hi) \div 2
         IN append_bytes_range(append_bytes_range(buf, bytes, lo, mid), bytes, mid + 1, hi)

append_bytes(buf, bytes) == append_bytes_range(buf, bytes, 1, Len(bytes))

\* Buffer::data(): the slice ends behind the backing array once bit_len is
\* above 8 * 1024, and slicing panics
Buffer_data_panics(buf) ==
    LET byte_len == buf.bit_len \div 8
    IN (IF buf.bit_len % 8 = 0 THEN byte_len ELSE byte_len + 1) > BufferCapacity

\* Buffer::data(): the first ceil(bit_len / 8) bytes of the backing array
Buffer_data(buf) ==
    LET byte_len == buf.bit_len \div 8
        n == IF buf.bit_len % 8 = 0 THEN byte_len ELSE byte_len + 1
    IN [i \in 1..n |-> ByteAt(buf, i - 1)]

---------------------------------------------------------------------------
(* Texts: a &str as the sequence of its code points *)

\* the number of bytes of a char in UTF-8
len_utf8(c) ==
    IF c < 128 THEN 1 ELSE IF c < 2048 THEN 2 ELSE IF c < 65536 THEN 3 ELSE 4

\* str::len(): the length in bytes
RECURSIVE str_len_range(_, _, _)
str_len_range(s, lo, hi) ==
    IF lo > hi THEN 0
    ELSE IF lo = hi THEN len_utf8(s[lo])
    ELSE LET mid == (lo + hi) \div 2
         IN str_len_range(s, lo, mid) + str_len_range(s, mid + 1, hi)

str_len(s) == str_len_range(s, 1, Len(s))

\* the UTF-8 encoding of a char
utf8(c) ==
    IF c < 128 THEN <<c>>
    ELSE IF c < 2048 THEN <<192 + (c \div 64), 128 + (c % 64)>>
    ELSE IF c < 65536
    THEN <<224 + (c \div 4096), 128 + ((c \div 64) % 64), 128 + (c % 64)>>
    ELSE <<240 + (c \div 262144), 128 + ((c \div 4096) % 64),
           128 + ((c \div 64) % 64), 128 + (c % 64)>>

\* str::bytes()
RECURSIVE str_bytes_range(_, _, _)
str_bytes_range(s, lo, hi) ==
    IF lo > hi THEN <<>>
    ELSE IF lo = hi THEN utf8(s[lo])
    ELSE LET mid == (lo + hi) \div 2
         IN str_bytes_range(s, lo, mid) \o str_bytes_range(s, mid + 1, hi)

str_bytes(s) == str_bytes_range(s, 1, Len(s))

---------------------------------------------------------------------------
(* src/src/encoding.rs: character sets *)

CharacterSet == {"Numeric", "Alphanumeric", "Iso8859_1", "Unicode"}

to_encoding_mode(character_set) ==
    CASE character_set = "Numeric" -> "Numeric"
      [] character_set = "Alphanumeric" -> "Alphanumeric"
      [] character_set = "Iso8859_1" -> "Byte"
      [] character_set = "Unicode" -> "Byte"

\* c.is_ascii_digit(): '0'..='9'
is_char_numeric(c) == c \in 48..57

\* a 45 character set that takes the lower case letters as well
is_char_alphanumeric_lowercase(c) ==
    \/ c \in 48..57
    \/ c \in 65..90
    \/ c \in 97..122
    \/ c \in {32, 36, 37, 42, 43, 45, 46, 47, 58}

\* '0'..='9' | 'A'..='Z' | ' ' | '$' | '%' | '*' | '+' | '-' | '.' | '/' | ':'
is_char_alphanumeric(c) ==
    \/ c \in 48..57
    \/ c \in 65..90
    \/ c \in {32, 36, 37, 42, 43, 45, 46, 47, 58}

is_char_iso_8859_1(c) == c <= 255


detect_character_set(s) ==
    IF (\A i \in 1..Len(s) : is_char_numeric(s[i])) THEN "Numeric"
    ELSE IF (\A i \in 1..Len(s) : is_char_alphanumeric(s[i])) THEN "Alphanumeric"
    ELSE IF (\A i \in 1..Len(s) : is_char_iso_8859_1(s[i])) THEN "Iso8859_1"
    ELSE "Unicode"

calculate_encoded_data_bit_length(data_len, version, character_set) ==
    LET mode_bits == 4
        char_count_len ==
            character_count_indicator_bit_length(version, to_encoding_mode(character_set))
    IN CASE character_set = "Numeric" ->
                mode_bits + char_count_len + 10 * (data_len \div 3)
                + (CASE data_len % 3 = 0 -> 0
                     [] data_len % 3 = 1 -> 4
                     [] data_len % 3 = 2 -> 7)
         [] character_set = "Alphanumeric" ->
                mode_bits + char_count_len + 11 * (data_len \div 2) + 6 * (data_len % 2)
         [] character_set = "Iso8859_1" -> mode_bits + char_count_len + 8 * data_len
         [] character_set = "Unicode" -> 4 + 8 + mode_bits + char_count_len + 8 * data_len

---------------------------------------------------------------------------
(* src/src/encoding.rs: the four segment encoders.  encode_terminator and  *)
(* encode_padding are the same code in all four.                           *)

\* max_data_bit_len - buffer.bit_len() in usize: a debug build panics on the
\* underflow; a release build wraps to a number >= 16, and encode_padding then
\* appends 0xEC11 until data[1024] is indexed, which panics as well.
encode_terminator(version, error_correction, buffer) ==
    IF buffer.panicked THEN buffer
    ELSE IF data_codeword_count_panics(version, error_correction) THEN PanickedBuffer
    ELSE LET max_data_bit_len == data_codeword_bit_len(version, error_correction)
             buffer_bit_len == buffer.bit_len
         IN IF max_data_bit_len < buffer_bit_len THEN PanickedBuffer
            ELSE IF max_data_bit_len - buffer_bit_len < 4
            THEN append_number(buffer, 0, max_data_bit_len - buffer_bit_len)
            ELSE LET alignment == 8 - ((buffer_bit_len + 4) % 8)
                 IN append_number(buffer, 0, 4 + alignment)

\* one turn of the padding loop; the buffer itself once bit_len_diff is 0
padding_step(max_data_bit_len, buffer) ==
    IF buffer.panicked THEN buffer
    ELSE IF max_data_bit_len < buffer.bit_len THEN PanickedBuffer
    ELSE LET bit_len_diff == max_data_bit_len - buffer.bit_len
         IN IF bit_len_diff = 0 THEN buffer
            ELSE IF bit_len_diff >= 16 THEN append_number(buffer, 60433, 16)
            ELSE IF bit_len_diff = 8 THEN append_number(buffer, 236, 8)
            ELSE PanickedBuffer           \* unreachable!()

\* n turns of the loop, split in halves to keep the evaluation shallow
RECURSIVE padding_turns(_, _, _)
padding_turns(max_data_bit_len, buffer, n) ==
    IF n = 0 \/ buffer.panicked THEN buffer
    ELSE IF n = 1 THEN padding_step(max_data_bit_len, buffer)
    ELSE padding_turns(max_data_bit_len,
                       padding_turns(max_data_bit_len, buffer, n \div 2), n - (n \div 2))

\* while bit_len_diff > 0: every turn but an unreachable!() one appends at
\* least 8 bits, so the loop has ended after bit_len_diff / 8 + 1 turns
padding_loop(max_data_bit_len, buffer) ==
    IF buffer.panicked THEN buffer
    ELSE IF max_data_bit_len < buffer.bit_len THEN PanickedBuffer
    ELSE padding_turns(max_data_bit_len, buffer,
                       ((max_data_bit_len - buffer.bit_len) \div 8) + 1)

encode_padding(version, error_correction, buffer) ==
    IF buffer.panicked THEN buffer
    ELSE IF data_codeword_count_panics(version, error_correction) THEN PanickedBuffer
    ELSE padding_loop(data_codeword_bit_len(version, error_correction), buffer)

encode_character_count_indicator(version, encoding, count, buffer) ==
    IF character_count_indicator_bit_length_panics(version) THEN PanickedBuffer
    ELSE append_number(buffer, count, character_count_indicator_bit_length(version, encoding))

(* NumericDataEncoder *)

\* data[i..j].parse::<u32>().unwrap() of ASCII digits
RECURSIVE parse_u32(_)
parse_u32(s) ==
    IF s = <<>> THEN 0
    ELSE 10 * parse_u32(SubSeq(s, 1, Len(s) - 1)) + (s[Len(s)] - 48)

\* one turn of the while loop, at index i
NumericDataEncoder_encode_data_at(data, i, buffer) ==
    LET chars_left == Len(data) - i
    IN IF buffer.panicked THEN buffer
       ELSE IF chars_left >= 3
       THEN append_number(buffer, parse_u32(SubSeq(data, i + 1, i + 3)), 10)
       ELSE IF chars_left = 2
       THEN append_number(buffer, parse_u32(SubSeq(data, i + 1, i + 2)), 7)
       ELSE IF chars_left = 1
       THEN append_number(buffer, parse_u32(SubSeq(data, i + 1, i + 1)), 3)
       ELSE buffer

\* the turns lo..hi of the loop (turn k is at i = 3 * k), split in halves to
\* keep the evaluation shallow
RECURSIVE NumericDataEncoder_encode_data_from(_, _, _, _)
NumericDataEncoder_encode_data_from(data, lo, hi, buffer) ==
    IF lo > hi \/ buffer.panicked THEN buffer
    ELSE IF lo = hi THEN NumericDataEncoder_encode_data_at(data, 3 * lo, buffer)
    ELSE LET mid == (lo + hi) \div 2
         IN NumericDataEncoder_encode_data_from(data, mid + 1, hi,
                NumericDataEncoder_encode_data_from(data, lo, mid, buffer))

NumericDataEncoder_encode_data(data, buffer) ==
    NumericDataEncoder_encode_data_from(data, 0, ((Len(data) + 2) \div 3) - 1, buffer)

\* mode indicator, character count indicator and data: the buffer before the terminator
NumericDataEncoder_segment(version, data) ==
    NumericDataEncoder_encode_data(data,
        encode_character_count_indicator(version, "Numeric", str_len(data),
            append_bits(Buffer_new, <<FALSE, FALSE, FALSE, TRUE>>)))

(* AlphanumericDataEncoder *)

convert_alphanumeric(c) ==
    IF c \in 48..57 THEN c - 48
    ELSE IF c \in 65..90 THEN c - 65 + 10
    ELSE CASE c = 32 -> 36
           [] c = 36 -> 37
           [] c = 37 -> 38
           [] c = 42 -> 39
           [] c = 43 -> 40
           [] c = 45 -> 41
           [] c = 46 -> 42
           [] c = 47 -> 43
           [] c = 58 -> 44

\* the body of the while loop for the k-th pair of chars (the last may be single)
AlphanumericDataEncoder_encode_chunk(data, k, buffer) ==
    IF buffer.panicked THEN buffer
    ELSE IF 2 * k + 2 <= Len(data)
    THEN append_number(buffer,
             45 * convert_alphanumeric(data[2 * k + 1]) + convert_alphanumeric(data[2 * k + 2]),
             11)
    ELSE append_number(buffer, convert_alphanumeric(data[2 * k + 1]), 6)

\* the chunks lo..hi in order, split in halves to keep the evaluation shallow
RECURSIVE AlphanumericDataEncoder_encode_chunks(_, _, _, _)
AlphanumericDataEncoder_encode_chunks(data, lo, hi, buffer) ==
    IF lo > hi \/ buffer.panicked THEN buffer
    ELSE IF lo = hi THEN AlphanumericDataEncoder_encode_chunk(data, lo, buffer)
    ELSE LET mid == (lo + hi) \div 2
         IN AlphanumericDataEncoder_encode_chunks(data, mid + 1, hi,
                AlphanumericDataEncoder_encode_chunks(data, lo, mid, buffer))

AlphanumericDataEncoder_encode_data(data, buffer) ==
    AlphanumericDataEncoder_encode_chunks(data, 0, ((Len(data) + 1) \div 2) - 1, buffer)

AlphanumericDataEncoder_segment(version, data) ==
    AlphanumericDataEncoder_encode_data(data,
        encode_character_count_indicator(version, "Alphanumeric", str_len(data),
            append_bits(Buffer_new, <<FALSE, FALSE, TRUE, FALSE>>)))

(* Iso8859_1DataEncoder *)

\* the chars lo..hi in order, split in halves to keep the evaluation shallow
RECURSIVE Iso8859_1DataEncoder_encode_chars(_, _, _, _)
Iso8859_1DataEncoder_encode_chars(data, lo, hi, buffer) ==
    IF lo > hi \/ buffer.panicked THEN buffer
    ELSE IF lo = hi THEN append_number(buffer, data[lo], 8)
    ELSE LET mid == (lo + hi) \div 2
         IN Iso8859_1DataEncoder_encode_chars(data, mid + 1, hi,
                Iso8859_1DataEncoder_encode_chars(data, lo, mid, buffer))

Iso8859_1DataEncoder_encode_data(data, buffer) ==
    Iso8859_1DataEncoder_encode_chars(data, 1, Len(data), buffer)

Iso8859_1DataEncoder_segment(version, data) ==
    Iso8859_1DataEncoder_encode_data(data,
        encode_character_count_indicator(version, "Byte", str_len(data),
            append_bits(Buffer_new, <<FALSE, TRUE, FALSE, FALSE>>)))

(* UnicodeDataEncoder *)

UnicodeDataEncoder_encode_mode_indicator(buffer) ==
    append_bits(append_byte(append_bits(buffer, <<FALSE, TRUE, TRUE, TRUE>>), 26),
                <<FALSE, TRUE, FALSE, FALSE>>)

UnicodeDataEncoder_encode_data(data, buffer) == append_bytes(buffer, str_bytes(data))

UnicodeDataEncoder_segment(version, data) ==
    UnicodeDataEncoder_encode_data(data,
        encode_character_count_indicator(version, "Byte", str_len(data),
            UnicodeDataEncoder_encode_mode_indicator(Buffer_new)))

\* the text is one its encoder accepts: the other texts panic in parse().unwrap(),
\* convert_alphanumeric or convert_iso8859_1
Legal(character_set, data) ==
    CASE character_set = "Numeric" -> (\A i \in 1..Len(data) : is_char_numeric(data[i]))
      [] character_set = "Alphanumeric" -> (\A i \in 1..Len(data) : is_char_alphanumeric(data[i]))
      [] character_set = "Iso8859_1" -> (\A i \in 1..Len(data) : is_char_iso_8859_1(data[i]))
      [] character_set = "Unicode" -> TRUE

\* <Encoder>::encode_mode_indicator, encode_character_count_indicator, encode_data
segment(character_set, version, data) ==
    CASE character_set = "Numeric" -> NumericDataEncoder_segment(version, data)
      [] character_set = "Alphanumeric" -> AlphanumericDataEncoder_segment(version, data)
      [] character_set = "Iso8859_1" -> Iso8859_1DataEncoder_segment(version, data)
      [] character_set = "Unicode" -> UnicodeDataEncoder_segment(version, data)

\* <Encoder>::encode
encode(character_set, version, error_correction, data) ==
    encode_padding(version, error_correction,
        encode_terminator(version, error_correction,
            segment(character_set, version, data)))

---------------------------------------------------------------------------
(* src/src/encoding.rs: encode_text *)

VersionRestriction(kind, version) == [kind |-> kind, version |-> version]

ErrorCorrectionRestriction(kind, level) == [kind |-> kind, level |-> level]

to_version(restriction) == restriction.version

to_error_correction(restriction) == restriction.level

\* `if let` for `while let`: a single step up
increase_error_correction_once(max_version, bit_len, selected_error_correction) ==
    LET increased_error_correction == increment(selected_error_correction)
    IN IF increased_error_correction = None THEN selected_error_correction
       ELSE IF data_codeword_bit_len(max_version, increased_error_correction) >= bit_len
       THEN increased_error_correction
       ELSE selected_error_correction

\* while let Some(increased) = selected.increment() { if it fits { selected = increased } else { break } }
RECURSIVE increase_error_correction(_, _, _)
increase_error_correction(max_version, bit_len, selected_error_correction) ==
    LET increased_error_correction == increment(selected_error_correction)
    IN IF increased_error_correction = None THEN selected_error_correction
       ELSE IF data_codeword_bit_len(max_version, increased_error_correction) >= bit_len
       THEN increase_error_correction(max_version, bit_len, increased_error_correction)
       ELSE selected_error_correction

select_error_correction(restriction, max_version, bit_len) ==
    IF restriction.kind = "MinErrorCorrection"
    THEN increase_error_correction(max_version, bit_len, restriction.level)
    ELSE restriction.level

\* while let Some(decreased) = selected.decrement() { if it fits { selected = decreased } else { break } }
RECURSIVE decrease_version(_, _, _)
decrease_version(selected_error_correction, bit_len, selected_version) ==
    LET decreased_version == decrement(selected_version)
    IN IF decreased_version = NoVersion THEN selected_version
       ELSE IF data_codeword_bit_len(decreased_version, selected_error_correction) >= bit_len
       THEN decrease_version(selected_error_correction, bit_len, decreased_version)
       ELSE selected_version

select_version(restriction, selected_error_correction, bit_len) ==
    IF restriction.kind = "MaxVersion"
    THEN decrease_version(selected_error_correction, bit_len, restriction.version)
    ELSE restriction.version

\* What an operation left behind.  status: "Ok" (a value was returned), "Err"
\* (Err(()) was returned) or "Panic".  character_set: the value
\* detect_character_set returned, or the encoder that ran.  segment_bit_len:
\* bit_len() as encode_terminator read it (encoders only).
Outcome(op, status, version, error_correction, buffer, segment_bit_len) ==
    [op |-> op, status |-> status, version |-> version,
     error_correction |-> error_correction, buffer |-> buffer,
     segment_bit_len |-> segment_bit_len, character_set |-> None]

NoOutcome == Outcome("none", "none", NoVersion, None, Buffer_new, 0)

Failed(op, status) == Outcome(op, status, NoVersion, None, Buffer_new, 0)

encode_text(restriction_v, restriction_e, s) ==
    LET character_set == detect_character_set(s)
        max_version == to_version(restriction_v)
        min_error_correction == to_error_correction(restriction_e)
    IN IF character_count_indicator_bit_length_panics(max_version)
       THEN Failed("encode_text", "Panic")
       ELSE LET bit_len ==
                    calculate_encoded_data_bit_length(str_len(s), max_version, character_set)
            IN IF data_codeword_count_panics(max_version, min_error_correction)
               THEN Failed("encode_text", "Panic")
               ELSE IF data_codeword_bit_len(max_version, min_error_correction) < bit_len
               THEN Failed("encode_text", "Err")
               ELSE LET selected_error_correction ==
                            select_error_correction(restriction_e, max_version, bit_len)
                        selected_version ==
                            select_version(restriction_v, selected_error_correction, bit_len)
                        buffer ==
                            encode(character_set, selected_version, selected_error_correction, s)
                    IN IF buffer.panicked
                       THEN Failed("encode_text", "Panic")
                       ELSE Outcome("encode_text", "Ok", selected_version,
                                    selected_error_correction, buffer, 0)

\* <Encoder> { version, error_correction }.encode(data)
encoder_encode(character_set, version, error_correction, s) ==
    LET seg == segment(character_set, version, s)
        buffer == encode(character_set, version, error_correction, s)
    IN [(IF buffer.panicked
         THEN Outcome("encode", "Panic", version, error_correction, Buffer_new,
                      IF seg.panicked THEN 0 ELSE seg.bit_len)
         ELSE Outcome("encode", "Ok", version, error_correction, buffer, seg.bit_len))
        EXCEPT !.character_set = character_set]

---------------------------------------------------------------------------
(* The payloads *)

PatternText(pattern, n) ==
    IF n = 0 THEN <<>> ELSE [i \in 1..n |-> pattern[((i - 1) % Len(pattern)) + 1]]

\* "0123456789", "HELLO WORLD:1", "[H@llo]", "w" 0xF3 "rld" 0xFF,
\* "I " U+1F493 U+20AC U+0100
Patterns ==
    { <<48, 49, 50, 51, 52, 53, 54, 55, 56, 57>>,
      <<72, 69, 76, 76, 79, 32, 87, 79, 82, 76, 68, 58, 49>>,
      <<91, 72, 64, 108, 108, 111, 93>>,
      <<119, 243, 114, 108, 100, 255>>,
      <<73, 32, 128147, 8364, 256>> }

PatternTexts == { PatternText(p, n) : p \in Patterns, n \in 0..MaxPatternLen }

VersionRestrictions ==
    { VersionRestriction(k, v) :
        k \in {"MaxVersion", "SpecificVersion"}, v \in 0..MaxVersionInput }

ErrorCorrectionRestrictions ==
    { ErrorCorrectionRestriction(k, e) :
        k \in {"MinErrorCorrection", "SpecificErrorCorrection"}, e \in ErrorCorrectionLevel }

NoBuilder == [version |-> Nothing, error_correction_level |-> "Medium",
              mask_reference |-> Nothing, text |-> Nothing]

\* the variables of the other specifications, left alone
EncodingIdle ==
    /\ text = <<>>
    /\ version_restriction = VersionRestriction("MaxVersion", 1)
    /\ error_correction_restriction = ErrorCorrectionRestriction("MinErrorCorrection", "Low")
    /\ result = NoOutcome
    /\ builder = NoBuilder
    /\ built = "none"

BufferIdle == target = Buffer_new /\ call = Idle

UnitsIdle == iter = Idle /\ masking = Idle /\ format = Idle /\ block_iter = Idle

StageIdle ==
    /\ placing = Idle /\ position = Idle /\ codewords = Idle
    /\ interleave = Idle /\ proportion = Idle

---------------------------------------------------------------------------
(* Encoding: the operations of src/src/encoding.rs applied to an input *)

InitEncode ==
    /\ text \in PatternTexts
    /\ version_restriction \in VersionRestrictions
    /\ error_correction_restriction \in ErrorCorrectionRestrictions
    /\ result = NoOutcome
    /\ builder = NoBuilder
    /\ built = "none"
    /\ BufferIdle
    /\ UnitsIdle
    /\ StageIdle

EncodeText ==
    /\ result.op = "none"
    /\ result' = encode_text(version_restriction, error_correction_restriction, text)
    /\ UNCHANGED <<text, version_restriction, error_correction_restriction, builder, built>>
    /\ UNCHANGED <<bufferVars, unitVars, stageVars>>

\* An encoder is constructed from a version and a level, those of the
\* restrictions, and handed a text it accepts
EncoderReady(character_set) ==
    /\ result.op = "none"
    /\ version_restriction.kind = "SpecificVersion"
    /\ error_correction_restriction.kind = "SpecificErrorCorrection"
    /\ Legal(character_set, text)

NumericEncode ==
    /\ EncoderReady("Numeric")
    /\ result' = encoder_encode("Numeric", version_restriction.version,
                                error_correction_restriction.level, text)
    /\ UNCHANGED <<text, version_restriction, error_correction_restriction, builder, built>>
    /\ UNCHANGED <<bufferVars, unitVars, stageVars>>

AlphanumericEncode ==
    /\ EncoderReady("Alphanumeric")
    /\ result' = encoder_encode("Alphanumeric", version_restriction.version,
                                error_correction_restriction.level, text)
    /\ UNCHANGED <<text, version_restriction, error_correction_restriction, builder, built>>
    /\ UNCHANGED <<bufferVars, unitVars, stageVars>>

Iso8859_1Encode ==
    /\ EncoderReady("Iso8859_1")
    /\ result' = encoder_encode("Iso8859_1", version_restriction.version,
                                error_correction_restriction.level, text)
    /\ UNCHANGED <<text, version_restriction, error_correction_restriction, builder, built>>
    /\ UNCHANGED <<bufferVars, unitVars, stageVars>>

UnicodeEncode ==
    /\ EncoderReady("Unicode")
    /\ result' = encoder_encode("Unicode", version_restriction.version,
                                error_correction_restriction.level, text)
    /\ UNCHANGED <<text, version_restriction, error_correction_restriction, builder, built>>
    /\ UNCHANGED <<bufferVars, unitVars, stageVars>>

NextEncode ==
    \/ EncodeText
    \/ NumericEncode
    \/ AlphanumericEncode
    \/ Iso8859_1Encode
    \/ UnicodeEncode

SpecEncode == InitEncode /\ [][NextEncode]_vars

---------------------------------------------------------------------------
(* Detection: detect_character_set applied to short texts over an alphabet *)
(* that holds the neighbours of every boundary of the three character sets *)

\* ' ' '!' '$' '/' '0' '9' ':' ';' '@' 'A' 'Z' '[' 'a' U+00FF U+0100 U+1F493
ShortAlphabet == {32, 33, 36, 47, 48, 57, 58, 59, 64, 65, 90, 91, 97, 255, 256, 128147}

ShortTexts == UNION { [1..n -> ShortAlphabet] : n \in 0..MaxShortLen }

InitDetect ==
    /\ text \in ShortTexts
    /\ version_restriction = VersionRestriction("MaxVersion", 1)
    /\ error_correction_restriction = ErrorCorrectionRestriction("MinErrorCorrection", "Low")
    /\ result = NoOutcome
    /\ builder = NoBuilder
    /\ built = "none"
    /\ BufferIdle
    /\ UnitsIdle
    /\ StageIdle

Detect ==
    /\ result.op = "none"
    /\ result' = [Outcome("detect_character_set", "Ok", NoVersion, None, Buffer_new, 0)
                    EXCEPT !.character_set = detect_character_set(text)]
    /\ UNCHANGED <<text, version_restriction, error_correction_restriction, builder, built>>
    /\ UNCHANGED <<bufferVars, unitVars, stageVars>>

NextDetect == Detect

SpecDetect == InitDetect /\ [][NextDetect]_vars

---------------------------------------------------------------------------
(* src/src/qrcode.rs: QrCodeBuilder *)

\* const MAX_VERSION: usize = 4
MAX_VERSION == 4

\* with_mask_reference is handed 0..MaxMaskInput: 8 is no mask reference
MaxMaskInput == 8

\* the length of the texts handed to with_text
BuilderTextLen == 8

BuilderTexts == { PatternText(p, n) : p \in Patterns, n \in {0, BuilderTextLen} }

QrCodeBuilder_new == NoBuilder

\* The encoder build() calls: it detects the character set and runs that
\* set's segment encoder at the given version and level (section 4.3)
StringDataEncoder_encode(version, error_correction, s) ==
    encode(detect_character_set(s), version, error_correction, s)

\* Masked::from: a reference above 7 reaches `_ => panic!()`
mask_panics(mask_reference) == mask_reference > 7

\* build(): "Panic", or "QrCode" when a QrCode was returned.  The stages
\* behind the encoder (error correction, matrix, mask) decide the modules of
\* the QrCode, not whether one is returned, but for the mask reference.
build(b) ==
    LET selected_version_number ==
            IF b.version = Nothing THEN MAX_VERSION ELSE b.version[1]   \* unwrap_or
    IN IF selected_version_number > MAX_VERSION THEN "Panic"     \* assert!
       ELSE IF b.text = Nothing THEN "Panic"                     \* self.text.unwrap()
       ELSE IF StringDataEncoder_encode(selected_version_number,
                                        b.error_correction_level, b.text[1]).panicked
       THEN "Panic"
       ELSE IF b.mask_reference # Nothing /\ mask_panics(b.mask_reference[1]) THEN "Panic"
       ELSE "QrCode"

InitBuilder ==
    /\ text = <<>>
    /\ version_restriction = VersionRestriction("MaxVersion", 1)
    /\ error_correction_restriction = ErrorCorrectionRestriction("MinErrorCorrection", "Low")
    /\ result = NoOutcome
    /\ builder = QrCodeBuilder_new
    /\ built = "none"
    /\ BufferIdle
    /\ UnitsIdle
    /\ StageIdle

with_version ==
    /\ built = "none"
    /\ \E version \in 0..MaxVersionInput : builder' = [builder EXCEPT !.version = Some(version)]
    /\ UNCHANGED <<text, version_restriction, error_correction_restriction, result, built>>
    /\ UNCHANGED <<bufferVars, unitVars, stageVars>>

with_error_correction_level ==
    /\ built = "none"
    /\ \E level \in ErrorCorrectionLevel :
          builder' = [builder EXCEPT !.error_correction_level = level]
    /\ UNCHANGED <<text, version_restriction, error_correction_restriction, result, built>>
    /\ UNCHANGED <<bufferVars, unitVars, stageVars>>

with_mask_reference ==
    /\ built = "none"
    /\ \E reference \in 0..MaxMaskInput :
          builder' = [builder EXCEPT !.mask_reference = Some(reference)]
    /\ UNCHANGED <<text, version_restriction, error_correction_restriction, result, built>>
    /\ UNCHANGED <<bufferVars, unitVars, stageVars>>

with_text ==
    /\ built = "none"
    /\ \E t \in BuilderTexts : builder' = [builder EXCEPT !.text = Some(t)]
    /\ UNCHANGED <<text, version_restriction, error_correction_restriction, result, built>>
    /\ UNCHANGED <<bufferVars, unitVars, stageVars>>

\* build(self) consumes the builder
Build ==
    /\ built = "none"
    /\ built' = build(builder)
    /\ UNCHANGED <<text, version_restriction, error_correction_restriction, result, builder>>
    /\ UNCHANGED <<bufferVars, unitVars, stageVars>>

NextBuilder ==
    \/ with_version
    \/ with_error_correction_level
    \/ with_mask_reference
    \/ with_text
    \/ Build

SpecBuilder == InitBuilder /\ [][NextBuilder]_vars

---------------------------------------------------------------------------
(* Reading a buffer back *)

\* bit i (counted from 0, MSB first) of the backing array
BufferBit(buf, i) == IF BitSet(ByteAt(buf, i \div 8), 7 - (i % 8)) THEN 1 ELSE 0

\* the w bits from bit offset, MSB first, as a number
RECURSIVE ReadNumber(_, _, _)
ReadNumber(buf, offset, w) ==
    IF w = 0 THEN 0
    ELSE 2 * ReadNumber(buf, offset, w - 1) + BufferBit(buf, offset + w - 1)

SupportedVersions == 1..5

\* an encoder ran on the inputs, at a version and level the tables implement
EncoderRan ==
    /\ result.op = "encode"
    /\ result.version \in SupportedVersions

\* the length formula of the selector for the text, at the encoder's version
FormulaBitLen ==
    calculate_encoded_data_bit_length(str_len(text), result.version, result.character_set)

MaxBitLen == 8 * data_codeword_count(result.version, result.error_correction)

Min(a, b) == IF a < b THEN a ELSE b

---------------------------------------------------------------------------
(* Claims about the segment encoders, under SpecEncode *)

\* C1: for every supported version and level and every payload whose formula
\* bit length is at most 8 * data_codeword_count, encode() returns a buffer
\* whose bit_len is exactly 8 * data_codeword_count.
C1_EncodeFillsCapacity ==
    (EncoderRan /\ FormulaBitLen <= MaxBitLen)
        => (result.status = "Ok" /\ result.buffer.bit_len = MaxBitLen)

\* the number character_count_indicator_bit_length bits wide
NumericDataOffset == 4 + character_count_indicator_bit_length(result.version, "Numeric")

\* C2: NumericDataEncoder::encode_data writes every full group of 3 digits as
\* its decimal value in 10 bits, a trailing group of 2 digits in 7 bits and a
\* trailing single digit in 4 bits.
C2_NumericGroups ==
    (EncoderRan /\ result.character_set = "Numeric" /\ result.status = "Ok")
        => LET n == Len(text)
               full == n \div 3
               tail == NumericDataOffset + 10 * full
           IN /\ \A k \in 0..(full - 1) :
                    ReadNumber(result.buffer, NumericDataOffset + 10 * k, 10)
                        = parse_u32(SubSeq(text, 3 * k + 1, 3 * k + 3))
              /\ (n % 3 = 2) =>
                    /\ ReadNumber(result.buffer, tail, 7) = parse_u32(SubSeq(text, n - 1, n))
                    /\ result.segment_bit_len = tail + 7
              /\ (n % 3 = 1) =>
                    /\ ReadNumber(result.buffer, tail, 4) = parse_u32(SubSeq(text, n, n))
                    /\ result.segment_bit_len = tail + 4
              /\ (n % 3 = 0) => result.segment_bit_len = tail

\* C3: for every character set, supported version and legal payload, the
\* bits written for mode indicator, ECI prefix, character count indicator and
\* payload number calculate_encoded_data_bit_length(text.len(), version, set).
C3_SegmentLengthIsFormula ==
    EncoderRan => result.segment_bit_len = FormulaBitLen

\* the bits [from, to) of the buffer are all zero
ZeroBits(buf, from, to) == \A i \in from..(to - 1) : BufferBit(buf, i) = 0

\* the bytes from bit offset `from` (a byte boundary) up to bit `to` are
\* 0xEC, 0x11, 0xEC, ...
PadBytes(buf, from, to) ==
    \A j \in 0..(((to - from) \div 8) - 1) :
        ByteAt(buf, (from \div 8) + j) = (IF j % 2 = 0 THEN 236 ELSE 17)

\* C4: behind a payload of len bits every encoder appends min(4, max - len)
\* zero bits, then the 0..7 zero bits that reach the next byte boundary, then
\* pad bytes 0xEC, 0x11, 0xEC, ... until bit_len = max.
C4_TerminatorAndPadding ==
    (EncoderRan /\ result.segment_bit_len <= MaxBitLen)
        => LET len == result.segment_bit_len
               terminated == len + Min(4, MaxBitLen - len)
               aligned == terminated + ((8 - (terminated % 8)) % 8)
           IN /\ result.status = "Ok"
              /\ result.buffer.bit_len = MaxBitLen
              /\ ZeroBits(result.buffer, len, aligned)
              /\ PadBytes(result.buffer, aligned, MaxBitLen)

---------------------------------------------------------------------------
(* Claims about encode_text, under SpecEncode *)

EncodeTextRan == result.op = "encode_text"

UpperVersion == to_version(version_restriction)

RequestedLevel == to_error_correction(error_correction_restriction)

\* the bit length the selector computes, at the upper bound version
SelectorBitLen ==
    calculate_encoded_data_bit_length(str_len(text), UpperVersion, detect_character_set(text))

Fits(v, e) == SelectorBitLen <= 8 * data_codeword_count(v, e)

\* C6: for every supported upper bound version, encode_text returns an error
\* value exactly when the formula bit length at the upper bound version
\* exceeds 8 * data_codeword_count(upper, min_ecc), and Ok in every other case.
C6_ErrIffTooLong ==
    (EncodeTextRan /\ UpperVersion \in SupportedVersions)
        => /\ (result.status = "Err") <=> ~Fits(UpperVersion, RequestedLevel)
           /\ (result.status = "Ok") <=> Fits(UpperVersion, RequestedLevel)

\* C7: with MinErrorCorrection(m) the selected level is the highest level
\* e >= m whose capacity at the upper bound version holds the payload; with
\* SpecificErrorCorrection(e) it is e; it is never below the requested level.
C7_SelectedLevel ==
    (EncodeTextRan /\ result.status = "Ok")
        => /\ LevelOrd(result.error_correction) >= LevelOrd(RequestedLevel)
           /\ (error_correction_restriction.kind = "SpecificErrorCorrection")
                 => result.error_correction = RequestedLevel
           /\ (error_correction_restriction.kind = "MinErrorCorrection")
                 => /\ Fits(UpperVersion, result.error_correction)
                    /\ \A e \in ErrorCorrectionLevel :
                          (LevelOrd(e) >= LevelOrd(RequestedLevel) /\ Fits(UpperVersion, e))
                              => LevelOrd(e) <= LevelOrd(result.error_correction)

\* C7 happens: a minimum of Low was raised to Quartile, and High did not fit
C7_Witness ==
    /\ EncodeTextRan
    /\ result.status = "Ok"
    /\ error_correction_restriction = ErrorCorrectionRestriction("MinErrorCorrection", "Low")
    /\ result.error_correction = "Quartile"
    /\ ~Fits(UpperVersion, "High")

\* C8: with MaxVersion(u) the selected version is the smallest version
\* v <= u that holds the payload at the selected level; with
\* SpecificVersion(v) it is v; every Ok result holds the payload.
C8_SelectedVersion ==
    (EncodeTextRan /\ result.status = "Ok")
        => /\ Fits(result.version, result.error_correction)
           /\ (version_restriction.kind = "SpecificVersion")
                 => result.version = UpperVersion
           /\ (version_restriction.kind = "MaxVersion")
                 => /\ result.version \in 1..UpperVersion
                    /\ \A v \in 1..(result.version - 1) :
                          ~Fits(v, result.error_correction)

\* C8 happens: an upper bound of 5 was lowered to 2, and version 1 is too small
C8_Witness ==
    /\ EncodeTextRan
    /\ result.status = "Ok"
    /\ version_restriction = VersionRestriction("MaxVersion", 5)
    /\ result.version = 2
    /\ ~Fits(1, result.error_correction)

\* C9: when the version restriction names version 0 or a version above 5,
\* encode_text returns an error value: it neither panics nor returns data.
C9_UnsupportedVersionIsErr ==
    (EncodeTextRan /\ UpperVersion \notin SupportedVersions) => result.status = "Err"

---------------------------------------------------------------------------
(* Claim about detect_character_set, under SpecDetect *)

Digits == 48..57

\* digits, A-Z, space, $ % * + - . / :
AlphanumericSet == Digits \cup (65..90) \cup {32, 36, 37, 42, 43, 45, 46, 47, 58}

Chars(s) == { s[i] : i \in 1..Len(s) }

\* C5: detect_character_set returns Numeric iff all characters are ASCII
\* digits; otherwise Alphanumeric iff all are in the 45 character set;
\* otherwise Iso8859_1 iff all code points are <= 0xFF; otherwise Unicode.
C5_DetectMostRestrictive ==
    (result.op = "detect_character_set")
        => result.character_set =
              (IF Chars(text) \subseteq Digits THEN "Numeric"
               ELSE IF Chars(text) \subseteq AlphanumericSet THEN "Alphanumeric"
               ELSE IF \A c \in Chars(text) : c <= 255 THEN "Iso8859_1"
               ELSE "Unicode")

\* C5 happens: a digit beside ':' is Alphanumeric, though neither Numeric nor
\* only Iso8859_1
C5_Witness ==
    /\ result.op = "detect_character_set"
    /\ text = <<57, 58>>
    /\ result.character_set = "Alphanumeric"

---------------------------------------------------------------------------
(* Claim about QrCodeBuilder::build, under SpecBuilder *)

\* C10: build() on a builder whose text was never set fails with a
\* MissingPayload error that build() returns as a value; it does not abort.
C10_MissingPayloadIsValue ==
    (built # "none" /\ builder.text = Nothing) => built = "MissingPayload"

---------------------------------------------------------------------------
(* Buffer: calls on a Buffer that already holds some bytes *)

\* at most MaxCalls calls are made on a buffer
MaxCalls == 2

\* the buffer holds that many bytes at the start: empty, nearly full, full
FillLens == {0, 1, BufferCapacity - 2, BufferCapacity - 1, BufferCapacity}

FillByte(i) == (i * 37 + 1) % 256

FilledBuffer(n) == append_bytes(Buffer_new, [i \in 1..n |-> FillByte(i)])

BitsInputs == {<<TRUE>>, <<FALSE, FALSE, FALSE>>, <<TRUE, FALSE, TRUE, TRUE, FALSE>>}
ByteInputs == {0, 1, 128, 172, 255}
BytesInputs == {<<7>>, <<255, 0, 129>>}
\* numbers below 2^31 and widths up to 30: the arithmetic of the model
\* stays inside the integers of the model checker
NumberInputs == {0, 5, 60433, 2147483647}
WidthInputs == {0, 1, 3, 8, 16, 30}

AppendOps == {"append_bit", "append_bits", "append_byte", "append_bytes", "append_number"}

NoCall == [op |-> "none", status |-> "none", before |-> Buffer_new,
           appended |-> 0, number |-> 0, returned |-> <<>>, count |-> 0]

\* the record of an append call that was to append `appended` bits
Appended(op, after, appended, number) ==
    [op |-> op, status |-> IF after.panicked THEN "Panic" ELSE "Ok", before |-> target,
     appended |-> appended, number |-> number, returned |-> <<>>, count |-> call.count + 1]

InitBuffer ==
    /\ EncodingIdle
    /\ UnitsIdle
    /\ StageIdle
    /\ target \in { FilledBuffer(n) : n \in FillLens }
    /\ call = NoCall

\* a call can be made: nothing has panicked
CanCall ==
    /\ call.count < MaxCalls
    /\ call.status # "Panic"
    /\ ~target.panicked

AppendBit ==
    /\ CanCall
    /\ \E bit \in BOOLEAN :
          /\ target' = append_bit(target, bit)
          /\ call' = Appended("append_bit", target', 1, IF bit THEN 1 ELSE 0)
    /\ UNCHANGED <<encodingVars, unitVars, stageVars>>

AppendBits ==
    /\ CanCall
    /\ \E bits \in BitsInputs :
          /\ target' = append_bits(target, bits)
          /\ call' = Appended("append_bits", target', Len(bits), 0)
    /\ UNCHANGED <<encodingVars, unitVars, stageVars>>

AppendByte ==
    /\ CanCall
    /\ \E byte \in ByteInputs :
          /\ target' = append_byte(target, byte)
          /\ call' = Appended("append_byte", target', 8, byte)
    /\ UNCHANGED <<encodingVars, unitVars, stageVars>>

AppendBytes ==
    /\ CanCall
    /\ \E bytes \in BytesInputs :
          /\ target' = append_bytes(target, bytes)
          /\ call' = Appended("append_bytes", target', 8 * Len(bytes), 0)
    /\ UNCHANGED <<encodingVars, unitVars, stageVars>>

AppendNumber ==
    /\ CanCall
    /\ \E number \in NumberInputs, bit_len \in WidthInputs :
          /\ target' = append_number(target, number, bit_len)
          /\ call' = Appended("append_number", target', bit_len, number)
    /\ UNCHANGED <<encodingVars, unitVars, stageVars>>

\* data(&self): the buffer is left alone
Data ==
    /\ CanCall
    /\ call' = [op |-> "data",
                status |-> IF Buffer_data_panics(target) THEN "Panic" ELSE "Ok",
                before |-> target, appended |-> 0, number |-> 0,
                returned |-> IF Buffer_data_panics(target) THEN <<>> ELSE Buffer_data(target),
                count |-> call.count + 1]
    /\ UNCHANGED <<target, encodingVars, unitVars, stageVars>>

NextBuffer ==
    \/ AppendBit
    \/ AppendBits
    \/ AppendByte
    \/ AppendBytes
    \/ AppendNumber
    \/ Data

SpecBuffer == InitBuffer /\ [][NextBuffer]_vars

\* an append call returned
AppendReturned == call.op \in AppendOps /\ call.status = "Ok"

\* every bit below bit index n has the same value in the two buffers
SameBitsBelow(a, b, n) ==
    /\ \A j \in 0..((n \div 8) - 1) : ByteAt(a, j) = ByteAt(b, j)
    /\ \A i \in (8 * (n \div 8))..(n - 1) : BufferBit(a, i) = BufferBit(b, i)

\* C11: an append call that returns increases bit_len by exactly the number
\* of bits it appends (1, n, 8, 8n, width), so bit_len never decreases, and
\* every bit below the bit_len before the call keeps its value.
C11_AppendOnly ==
    AppendReturned =>
        /\ target.bit_len = call.before.bit_len + call.appended
        /\ target.bit_len >= call.before.bit_len
        /\ SameBitsBelow(target, call.before,
                         Min(call.before.bit_len, 8 * BufferCapacity))

\* append_bytes wrote three bytes behind a bit offset that is no byte boundary
C11_Witness ==
    /\ AppendReturned
    /\ call.op = "append_bytes"
    /\ call.appended = 24
    /\ call.before.bit_len % 8 = 5
    /\ call.before.bit_len > 8

\* C12: an append call that would take the buffer past 8 * 1024 bits fails,
\* whatever the bits, and bit_len is never above 8 * 1024.
C12_PastCapacityFails ==
    /\ (call.op \in AppendOps /\ call.before.bit_len + call.appended > 8 * BufferCapacity)
            => call.status = "Panic"
    /\ target.bit_len <= 8 * BufferCapacity

\* C13: a byte written by append_byte is read back from the 8 bits at the
\* offset it was written at, aligned or not, and the w bits behind the old
\* bit_len are the low w bits of n after append_number(n, w); the bits read
\* are bits of the backing array.
C13_RoundTrip ==
    (AppendReturned /\ target.bit_len <= 8 * BufferCapacity) =>
        /\ call.op = "append_byte" =>
                ReadNumber(target, call.before.bit_len, 8) = call.number
        /\ call.op = "append_number" =>
                ReadNumber(target, call.before.bit_len, call.appended)
                    = call.number % Pow2(call.appended)

\* append_byte wrote 0b1010_1100 at a bit offset that is no byte boundary
C13_Witness ==
    /\ AppendReturned
    /\ call.op = "append_byte"
    /\ call.number = 172
    /\ call.before.bit_len % 8 = 3
    /\ target.bit_len <= 8 * BufferCapacity

\* C14: data() returns ceil(bit_len / 8) bytes, and the bits of the last
\* byte that lie behind bit_len are 0.
C14_DataLength ==
    call.op = "data" =>
        /\ call.status = "Ok"
        /\ Len(call.returned) = (target.bit_len + 7) \div 8
        /\ target.bit_len % 8 # 0 =>
                call.returned[Len(call.returned)] % Pow2(8 - (target.bit_len % 8)) = 0

---------------------------------------------------------------------------
(* src/src/array_2d.rs, src/src/draw_iterator.rs: drawing a QrCode *)

\* the QrCodes drawn have the versions 1..MaxDrawVersion
MaxDrawVersion == 2

\* next() is called up to MaxExtraCalls times after it first returned None
MaxExtraCalls == 3

\* const BORDER_SIZE: usize = 4
BORDER_SIZE == 4

Color == {"White", "Black"}

\* Array2D: the cells inside the logical size, and the size
Array2D_size(a) == a.size

\* Index<Coordinate>: self.data[index.x][index.y]
Array2D_index(a, pos) == a.data[pos.x][pos.y]

QrPatterns == {"black", "checker", "stripes"}

PatternColor(pattern, x, y) ==
    CASE pattern = "black" -> "Black"
      [] pattern = "checker" -> IF (x + y) % 2 = 0 THEN "Black" ELSE "White"
      [] pattern = "stripes" -> IF y % 3 = 0 THEN "White" ELSE "Black"

\* a QrCode of the size of the version: what QrCode::from makes of a matrix
QrCodeOf(version, pattern) ==
    LET size == version_to_size(version)
    IN [data |-> [size |-> [x |-> size, y |-> size],
                  data |-> [x \in 0..(size - 1) |->
                              [y \in 0..(size - 1) |-> PatternColor(pattern, x, y)]]]]

DrawIterator_new(qrcode) == [qrcode |-> qrcode, x |-> 0, y |-> 0]

DrawIterator_height(it) == 8 + Array2D_size(it.qrcode.data).x

DrawIterator_width(it) == 8 + Array2D_size(it.qrcode.data).y

is_current_pos_border(it) ==
    LET data_size == Array2D_size(it.qrcode.data)
    IN \/ it.x < 4
       \/ it.y < 4
       \/ it.x >= data_size.x + BORDER_SIZE
       \/ it.y >= data_size.y + BORDER_SIZE

\* what next() returns
DrawIterator_next_result(it) ==
    IF it.y >= DrawIterator_height(it) THEN Nothing
    ELSE IF is_current_pos_border(it)
    THEN Some([x |-> it.x, y |-> it.y, color |-> "White"])
    ELSE LET data_pos == [x |-> it.x - BORDER_SIZE, y |-> it.y - BORDER_SIZE]
         IN Some([x |-> it.x, y |-> it.y, color |-> Array2D_index(it.qrcode.data, data_pos)])

\* a variant that starts the next row one call late
DrawIterator_next_wrapping_late(it) ==
    IF it.x + 1 > DrawIterator_width(it)
    THEN [it EXCEPT !.x = 0, !.y = it.y + 1]
    ELSE [it EXCEPT !.x = it.x + 1]

\* the iterator next() leaves behind
DrawIterator_next(it) ==
    IF it.x + 1 >= DrawIterator_width(it)
    THEN [it EXCEPT !.x = 0, !.y = it.y + 1]
    ELSE [it EXCEPT !.x = it.x + 1]

InitDraw ==
    /\ EncodingIdle
    /\ BufferIdle
    /\ masking = Idle /\ format = Idle /\ block_iter = Idle
    /\ StageIdle
    /\ \E version \in 1..MaxDrawVersion, pattern \in QrPatterns :
          iter = [it |-> DrawIterator_new(QrCodeOf(version, pattern)),
                  calls |-> 0, last |-> Nothing]

\* the number of coordinates of the drawing
DrawArea == DrawIterator_width(iter.it) * DrawIterator_height(iter.it)

DrawNext ==
    /\ iter.calls < DrawArea + MaxExtraCalls
    /\ iter' = [it |-> DrawIterator_next(iter.it),
                calls |-> iter.calls + 1,
                last |-> DrawIterator_next_result(iter.it)]
    /\ UNCHANGED <<encodingVars, bufferVars, masking, format, block_iter, stageVars>>

NextDraw == DrawNext

SpecDraw == InitDraw /\ [][NextDraw]_vars

\* the logical size of the QrCode drawn
DrawSize == Array2D_size(iter.it.qrcode.data).x

\* the coordinate lies in the outer band of 4 modules
InBand(x, y) ==
    x < 4 \/ y < 4 \/ x >= DrawSize + 4 \/ y >= DrawSize + 4

\* C15: width() = height() = s + 8; call number k + 1 of next() yields the
\* coordinate (k mod (s + 8), k div (s + 8)) for every k < (s + 8)^2, so
\* every coordinate is yielded once in row-major order; every later call
\* yields None; an item of the outer band of 4 modules is White.
C15_DrawOrder ==
    /\ DrawIterator_width(iter.it) = DrawSize + 8
    /\ DrawIterator_height(iter.it) = DrawSize + 8
    /\ iter.calls >= 1 =>
          LET k == iter.calls - 1
          IN IF k < (DrawSize + 8) * (DrawSize + 8)
             THEN /\ iter.last # Nothing
                  /\ iter.last[1].x = k % (DrawSize + 8)
                  /\ iter.last[1].y = k \div (DrawSize + 8)
                  /\ InBand(iter.last[1].x, iter.last[1].y) => iter.last[1].color = "White"
             ELSE iter.last = Nothing

\* the whole drawing was yielded, with a Black module next to the band, and
\* next() has returned None more than once since
C15_Witness ==
    /\ iter.calls = (DrawSize + 8) * (DrawSize + 8) + 2
    /\ iter.last = Nothing
    /\ Array2D_index(iter.it.qrcode.data, [x |-> 0, y |-> DrawSize - 1]) = "Black"

---------------------------------------------------------------------------
(* src/src/matrix.rs: colours and modules; src/src/mask.rs: Masked::from *)

inverse(color) == IF color = "White" THEN "Black" ELSE "White"

\* enum Module
Filled(color) == [kind |-> "Filled", color |-> color]
Empty == [kind |-> "Empty", color |-> "None"]
Static(color) == [kind |-> "Static", color |-> color]
Reserved == [kind |-> "Reserved", color |-> "None"]

Module == {Filled("White"), Filled("Black"), Empty, Static("White"), Static("Black"), Reserved}

\* impl From<Module> for Color
Module_into_Color(module) ==
    CASE module.kind = "Filled" -> module.color
      [] module.kind = "Empty" -> "White"
      [] module.kind = "Static" -> module.color
      [] module.kind = "Reserved" -> "White"

\* a variant of the closure that takes the column for the row
condition_of_the_transpose(reference, x, y) ==
    CASE reference = 0 -> (y + x) % 2 = 0
      [] reference = 1 -> y % 2 = 0
      [] reference = 2 -> x % 3 = 0
      [] reference = 3 -> (y + x) % 3 = 0
      [] reference = 4 -> ((y \div 2) + (x \div 3)) % 2 = 0
      [] reference = 5 -> ((y * x) % 2) + ((y * x) % 3) = 0
      [] reference = 6 -> (((y * x) % 2) + ((y * x) % 3)) % 2 = 0
      [] reference = 7 -> (((y + x) % 2) + ((y * x) % 3)) % 2 = 0

\* the closure `condition` of Masked::from, for a reference 0..7
condition(reference, x, y) ==
    CASE reference = 0 -> (x + y) % 2 = 0
      [] reference = 1 -> x % 2 = 0
      [] reference = 2 -> y % 3 = 0
      [] reference = 3 -> (x + y) % 3 = 0
      [] reference = 4 -> ((x \div 2) + (y \div 3)) % 2 = 0
      [] reference = 5 -> ((x * y) % 2) + ((x * y) % 3) = 0
      [] reference = 6 -> (((x * y) % 2) + ((x * y) % 3)) % 2 = 0
      [] reference = 7 -> (((x + y) % 2) + ((x * y) % 3)) % 2 = 0

\* a variant of the loop body that inverts Static modules as well
mask_module_and_static(module, reference, x, y) ==
    IF module.kind \in {"Filled", "Static"} /\ condition(reference, x, y)
    THEN [module EXCEPT !.color = inverse(module.color)]
    ELSE module

\* a variant of the loop body that paints the module Black
mask_module_painting_black(module, reference, x, y) ==
    IF module.kind = "Filled" /\ condition(reference, x, y)
    THEN Filled("Black")
    ELSE module

\* the body of the loops of Masked::from, at (x, y)
mask_module(module, reference, x, y) ==
    IF module.kind = "Filled" /\ condition(reference, x, y)
    THEN Filled(inverse(module.color))
    ELSE module

\* Masked::from; status "Panic" for a reference above 7, the matrix as it was
Masked_from(matrix, reference) ==
    IF mask_panics(reference)
    THEN [status |-> "Panic", mask_reference |-> reference, matrix |-> matrix]
    ELSE LET size == Array2D_size(matrix.data)
         IN [status |-> "Ok",
             mask_reference |-> reference,
             matrix |-> [matrix EXCEPT !.data.data =
                            [x \in 0..(size.x - 1) |->
                               [y \in 0..(size.y - 1) |->
                                  mask_module(matrix.data.data[x][y], reference, x, y)]]]]

---------------------------------------------------------------------------
(* src/src/format.rs: FormatEncoder *)

\* the arms 0..31 of masked_sequence
MaskedSequenceTable ==
    <<21522, 20773, 24188, 23371, 17913, 16590, 20375, 19104,
      30660, 29427, 32170, 30877, 26159, 25368, 27713, 26998,
      5769, 5054, 7399, 6608, 1890, 597, 3340, 2107,
      13663, 12392, 16177, 14854, 9396, 8579, 11994, 11245>>

\* `_ => panic!()`
masked_sequence_panics(data_bits) == data_bits > 31

masked_sequence(data_bits) == MaskedSequenceTable[data_bits + 1]

\* a variant that takes the bits of the level from the declaration order of
\* the enum
FormatEncoder_data_in_declaration_order(fe) ==
    (LevelOrd(fe.error_correction_level) * 8) + fe.mask_reference

\* the data bits encode() looks up
FormatEncoder_data(fe) ==
    LET error_correction_level ==
            CASE fe.error_correction_level = "Low" -> 1
              [] fe.error_correction_level = "Medium" -> 0
              [] fe.error_correction_level = "Quartile" -> 3
              [] fe.error_correction_level = "High" -> 2
    IN (error_correction_level * 8) + fe.mask_reference

FormatEncoder_encode_panics(fe) == masked_sequence_panics(FormatEncoder_data(fe))

FormatEncoder_encode(fe) == masked_sequence(FormatEncoder_data(fe))

---------------------------------------------------------------------------
(* src/src/matrix.rs: place_format *)

\* FormatPositionIterator: the two positions of bit `index`, 0..14
FormatPositions(size, index) ==
    LET pos1 == IF index <= 5 THEN [x |-> index, y |-> 8]
                ELSE IF index <= 7 THEN [x |-> index + 1, y |-> 8]
                ELSE IF index = 8 THEN [x |-> 8, y |-> (14 - index) + 1]
                ELSE [x |-> 8, y |-> 14 - index]
        pos2 == IF index <= 7 THEN [x |-> 8, y |-> size.y - 1 - index]
                ELSE [x |-> (size.x - 1 - 14) + index, y |-> 8]
    IN {pos1, pos2}

\* a variant of place_format that leaves the dark module to the caller
place_format_without_dark_module(array, data) ==
    LET size == Array2D_size(array)
        indexes(x, y) == { index \in 0..14 : [x |-> x, y |-> y] \in FormatPositions(size, index) }
        last(S) == CHOOSE index \in S : \A other \in S : other <= index
        module(x, y) ==
            IF indexes(x, y) = {} THEN array.data[x][y]
            ELSE IF BitSet(data, last(indexes(x, y))) THEN Static("Black")
            ELSE Static("White")
    IN [array EXCEPT !.data =
           [x \in 0..(size.x - 1) |-> [y \in 0..(size.y - 1) |-> module(x, y)]]]

\* place_format: bit `index` of data goes to its two positions, the later
\* index on top, and the dark module is written last
place_format(array, data) ==
    LET size == Array2D_size(array)
        dark == [x |-> size.y - 8, y |-> 8]
        indexes(x, y) == { index \in 0..14 : [x |-> x, y |-> y] \in FormatPositions(size, index) }
        last(S) == CHOOSE index \in S : \A other \in S : other <= index
        module(x, y) ==
            IF [x |-> x, y |-> y] = dark THEN Static("Black")
            ELSE IF indexes(x, y) = {} THEN array.data[x][y]
            ELSE IF BitSet(data, last(indexes(x, y))) THEN Static("Black")
            ELSE Static("White")
    IN [array EXCEPT !.data =
           [x \in 0..(size.x - 1) |-> [y \in 0..(size.y - 1) |-> module(x, y)]]]

\* Formatted::from: the format information of the matrix's level and of the
\* mask reference is placed on the masked matrix (section 4.10)
Formatted_from(masked) ==
    [masked |-> [masked EXCEPT !.matrix.data =
        place_format(masked.matrix.data,
                     FormatEncoder_encode([error_correction_level |-> masked.matrix.error_correction,
                                           mask_reference |-> masked.mask_reference]))]]

---------------------------------------------------------------------------
(* src/src/mask.rs: the score of a masked matrix *)

\* rows(): the row x holds the modules (x, 0), (x, 1), ...; as colours
RowColors(array, x) ==
    [i \in 1..Array2D_size(array).y |-> Module_into_Color(array.data[x][i - 1])]

\* columns(): the column y holds the modules (0, y), (1, y), ...; as colours
ColumnColors(array, y) ==
    [i \in 1..Array2D_size(array).x |-> Module_into_Color(array.data[i - 1][y])]

RECURSIVE SumSeq(_)
SumSeq(seq) == IF Len(seq) = 0 THEN 0 ELSE seq[1] + SumSeq(Tail(seq))

\* AdjacentIterator with filter(i >= 5), map(i - 2) and sum: `count` is the
\* length of the run that ends in front of index i
RECURSIVE score_adjacent_from(_, _, _, _)
score_adjacent_from(line, i, count, total) ==
    LET closed == IF count >= 5 THEN total + (count - 2) ELSE total
    IN IF i > Len(line) THEN closed
       ELSE IF i > 1 /\ line[i] = line[i - 1]
       THEN score_adjacent_from(line, i + 1, count + 1, total)
       ELSE score_adjacent_from(line, i + 1, 1, closed)

score_adjacent(line) == score_adjacent_from(line, 1, 0, 0)

score_adjacent_horizontal(masked) ==
    LET array == masked.matrix.data
    IN SumSeq([i \in 1..Array2D_size(array).x |-> score_adjacent(RowColors(array, i - 1))])

score_adjacent_vertical(masked) ==
    LET array == masked.matrix.data
    IN SumSeq([i \in 1..Array2D_size(array).y |-> score_adjacent(ColumnColors(array, i - 1))])

score_blocks(masked) ==
    LET array == masked.matrix.data
        size == Array2D_size(array)
        color(x, y) == Module_into_Color(array.data[x][y])
    IN 3 * Cardinality({ pos \in (0..(size.x - 2)) \X (0..(size.y - 2)) :
                           /\ color(pos[1], pos[2]) = color(pos[1], pos[2] + 1)
                           /\ color(pos[1], pos[2]) = color(pos[1] + 1, pos[2])
                           /\ color(pos[1], pos[2]) = color(pos[1] + 1, pos[2] + 1) })

match_pattern1 ==
    <<"Black", "White", "Black", "Black", "Black", "White",
      "Black", "White", "White", "White", "White">>

match_pattern2 ==
    <<"White", "White", "White", "White", "Black", "White",
      "Black", "Black", "Black", "White", "Black">>

\* initial_pattern unwraps eleven items
score_match_pattern_panics(line) == Len(line) < 11

\* the number of windows of eleven modules that are one of the two patterns
score_match_pattern(line) ==
    Cardinality({ i \in 1..(Len(line) - 10) :
                    SubSeq(line, i, i + 10) \in {match_pattern1, match_pattern2} })

score_pattern_horizontal(masked) ==
    LET array == masked.matrix.data
    IN 40 * SumSeq([i \in 1..Array2D_size(array).x |->
                      score_match_pattern(RowColors(array, i - 1))])

score_pattern_vertical(masked) ==
    LET array == masked.matrix.data
    IN 40 * SumSeq([i \in 1..Array2D_size(array).y |->
                      score_match_pattern(ColumnColors(array, i - 1))])

score_proportion(masked) ==
    LET array == masked.matrix.data
        size == Array2D_size(array)
        black_count ==
            Cardinality({ pos \in (0..(size.x - 1)) \X (0..(size.y - 1)) :
                            Module_into_Color(array.data[pos[1]][pos[2]]) = "Black" })
        percentage == (black_count * 100) \div (size.x * size.y)
        k == IF percentage < 50 THEN 50 - percentage ELSE percentage - 50
    IN (k \div 5) * 10

score(masked) ==
    score_adjacent_horizontal(masked)
        + score_adjacent_vertical(masked)
        + score_blocks(masked)
        + score_pattern_horizontal(masked)
        + score_pattern_vertical(masked)
        + score_proportion(masked)

ScoreMasked_from(formatted) ==
    [status |-> "Ok", score |-> score(formatted.masked), masked |-> formatted.masked]

\* Matrix::mask; status "Panic" when Masked::from panics
Matrix_mask(matrix, mask_reference) ==
    LET masked == Masked_from(matrix, mask_reference)
    IN IF masked.status = "Panic"
       THEN [status |-> "Panic", score |-> 0, masked |-> masked]
       ELSE ScoreMasked_from(Formatted_from(masked))

\* a variant of min_by_key that keeps the last of several minimal items
RECURSIVE best_mask_keeping_last(_, _, _)
best_mask_keeping_last(matrix, reference, best) ==
    IF reference = 8 THEN best
    ELSE LET scored == Matrix_mask(matrix, reference)
         IN best_mask_keeping_last(matrix, reference + 1,
                IF best.status = "none" \/ scored.score <= best.score THEN scored ELSE best)

\* (0..8).map(..).min_by_key(|x| x.score): a later item replaces the item
\* kept only when its score is smaller
RECURSIVE best_mask_from(_, _, _)
best_mask_from(matrix, reference, best) ==
    IF reference = 8 THEN best
    ELSE LET scored == Matrix_mask(matrix, reference)
         IN best_mask_from(matrix, reference + 1,
                IF best.status = "none" \/ scored.score < best.score THEN scored ELSE best)

NoScoreMasked(matrix) ==
    [status |-> "none", score |-> 0,
     masked |-> [status |-> "none", mask_reference |-> 0, matrix |-> matrix]]

best_mask(matrix) == best_mask_from(matrix, 0, NoScoreMasked(matrix))

---------------------------------------------------------------------------
(* src/src/matrix.rs: the function patterns and the placement of the data *)

Point_new(x, y) == [x |-> x, y |-> y]

\* Matrix::new: every module Empty
Array2D_of(size, module) ==
    [size |-> Point_new(size, size),
     data |-> [x \in 0..(size - 1) |-> [y \in 0..(size - 1) |-> module]]]

fill_module(array, pos, data) == [array EXCEPT !.data[pos.x][pos.y] = data]

\* fill_line: pos1 and pos2 share x or share y (the asserts of the code hold
\* for every line the function patterns draw)
fill_line(array, pos1, pos2, data) ==
    [array EXCEPT !.data =
        [x \in DOMAIN array.data |->
           [y \in DOMAIN array.data[x] |->
              IF \/ (pos1.x = pos2.x /\ x = pos1.x /\ y \in pos1.y..pos2.y)
                 \/ (pos1.x # pos2.x /\ pos1.y = pos2.y /\ y = pos1.y /\ x \in pos1.x..pos2.x)
              THEN data
              ELSE array.data[x][y]]]]

\* the nine Black modules in the middle of a finder pattern
fill_finder_centre(array, pos) ==
    [array EXCEPT !.data =
        [x \in DOMAIN array.data |->
           [y \in DOMAIN array.data[x] |->
              IF x \in (pos.x + 2)..(pos.x + 4) /\ y \in (pos.y + 2)..(pos.y + 4)
              THEN Static("Black")
              ELSE array.data[x][y]]]]

fill_finder_pattern(array, pos) ==
    LET black == Static("Black")
        white == Static("White")
        a1 == fill_line(array, pos, Point_new(pos.x, pos.y + 6), black)
        a2 == fill_line(a1, Point_new(pos.x, pos.y + 6), Point_new(pos.x + 5, pos.y + 6), black)
        a3 == fill_line(a2, Point_new(pos.x + 6, pos.y + 1), Point_new(pos.x + 6, pos.y + 6), black)
        a4 == fill_line(a3, Point_new(pos.x + 1, pos.y), Point_new(pos.x + 6, pos.y), black)
        a5 == fill_line(a4, Point_new(pos.x + 1, pos.y + 1), Point_new(pos.x + 1, pos.y + 4), white)
        a6 == fill_line(a5, Point_new(pos.x + 1, pos.y + 5), Point_new(pos.x + 4, pos.y + 5), white)
        a7 == fill_line(a6, Point_new(pos.x + 5, pos.y + 2), Point_new(pos.x + 5, pos.y + 5), white)
        a8 == fill_line(a7, Point_new(pos.x + 2, pos.y + 1), Point_new(pos.x + 5, pos.y + 1), white)
    IN fill_finder_centre(a8, pos)

fill_finder_patterns(array) ==
    LET white == Static("White")
        size == Array2D_size(array)
        \* Left-top
        a1 == fill_finder_pattern(array, Point_new(0, 0))
        a2 == fill_line(a1, Point_new(0, 7), Point_new(7, 7), white)
        a3 == fill_line(a2, Point_new(7, 0), Point_new(7, 6), white)
        \* Left-bottom
        b1 == fill_finder_pattern(a3, Point_new(size.x - 7, 0))
        b2 == fill_line(b1, Point_new(size.x - 8, 0), Point_new(size.x - 8, 7), white)
        b3 == fill_line(b2, Point_new(size.x - 8, 7), Point_new(size.x - 1, 7), white)
        \* Right-top
        c1 == fill_finder_pattern(b3, Point_new(0, size.y - 7))
        c2 == fill_line(c1, Point_new(7, size.y - 8), Point_new(7, size.y - 1), white)
    IN fill_line(c2, Point_new(0, size.y - 8), Point_new(7, size.y - 8), white)

fill_reserved(array) ==
    LET size == Array2D_size(array)
        a1 == fill_line(array, Point_new(0, 8), Point_new(5, 8), Reserved)
        a2 == fill_line(a1, Point_new(8, 0), Point_new(8, 5), Reserved)
        a3 == fill_module(a2, Point_new(7, 8), Reserved)
        a4 == fill_module(a3, Point_new(8, 8), Reserved)
        a5 == fill_module(a4, Point_new(8, 7), Reserved)
        a6 == fill_line(a5, Point_new(size.x - 8, 8), Point_new(size.x - 1, 8), Reserved)
    IN fill_line(a6, Point_new(8, size.y - 8), Point_new(8, size.y - 1), Reserved)

fill_timing_pattern(array) ==
    LET size == Array2D_size(array)
        color(i) == IF i % 2 = 0 THEN Static("Black") ELSE Static("White")
    IN [array EXCEPT !.data =
          [x \in DOMAIN array.data |->
             [y \in DOMAIN array.data[x] |->
                IF y = 6 /\ x \in 8..(size.x - 9) THEN color(x)
                ELSE IF x = 6 /\ y \in 8..(size.y - 9) THEN color(y)
                ELSE array.data[x][y]]]]

\* PositionIterator: the number of the call of next() that yields (x, y),
\* counted from 0.  The iterator walks pairs of columns y, y - 1 from the
\* right, up and down in turns, and steps over column 6.
PositionIndex(size, x, y) ==
    LET from_right == IF y > 6 THEN size.y - 1 - y ELSE size.y - 1 - (y + 1)
        pair == from_right \div 2
        step == IF pair % 2 = 0 THEN size.x - 1 - x ELSE x
    IN 2 * ((pair * size.x) + step) + (from_right % 2)

\* BitIterator: bit k of the bytes, the most significant bit of a byte first
BitIterator_bit(data, k) == BitSet(data[(k \div 8) + 1], 7 - (k % 8))

\* place_data: a bit that finds no Empty module walks the PositionIterator
\* past its last strip, where `current_pos.y -= 2` overflows or the matrix
\* is indexed outside its columns: a panic in every build
place_data_panics(array, data) ==
    LET size == Array2D_size(array)
    IN 8 * Len(data) > Cardinality({ pos \in (0..(size.x - 1)) \X (0..(size.y - 1)) :
                                       pos[2] # 6 /\ array.data[pos[1]][pos[2]] = Empty })

\* a variant of BitIterator that starts at the least significant bit
place_data_lsb_first(array, data) ==
    LET size == Array2D_size(array)
        empty == { pos \in (0..(size.x - 1)) \X (0..(size.y - 1)) :
                     pos[2] # 6 /\ array.data[pos[1]][pos[2]] = Empty }
        rank(x, y) == Cardinality({ pos \in empty :
                         PositionIndex(size, pos[1], pos[2]) < PositionIndex(size, x, y) })
        module(x, y) ==
            IF <<x, y>> \in empty /\ rank(x, y) < 8 * Len(data)
            THEN IF BitSet(data[(rank(x, y) \div 8) + 1], rank(x, y) % 8)
                 THEN Filled("Black") ELSE Filled("White")
            ELSE array.data[x][y]
    IN [array EXCEPT !.data =
          [x \in 0..(size.x - 1) |-> [y \in 0..(size.y - 1) |-> module(x, y)]]]

\* place_data: every bit goes to the first module of the walk that is still
\* Empty, so bit k goes to the Empty module with k Empty modules before it
place_data(array, data) ==
    LET size == Array2D_size(array)
        empty == { pos \in (0..(size.x - 1)) \X (0..(size.y - 1)) :
                     pos[2] # 6 /\ array.data[pos[1]][pos[2]] = Empty }
        rank(x, y) == Cardinality({ pos \in empty :
                         PositionIndex(size, pos[1], pos[2]) < PositionIndex(size, x, y) })
        module(x, y) ==
            IF <<x, y>> \in empty /\ rank(x, y) < 8 * Len(data)
            THEN IF BitIterator_bit(data, rank(x, y)) THEN Filled("Black") ELSE Filled("White")
            ELSE array.data[x][y]
    IN [array EXCEPT !.data =
          [x \in 0..(size.x - 1) |-> [y \in 0..(size.y - 1) |-> module(x, y)]]]

\* Matrix::from_data: the function patterns, then the codewords (sections
\* 4.7, 4.8), in the order of tests::placement
Matrix_from_data(version, error_correction, data) ==
    [version |-> version,
     error_correction |-> error_correction,
     data |-> place_data(
                 fill_timing_pattern(fill_reserved(fill_finder_patterns(
                     Array2D_of(version_to_size(version), Empty)))),
                 data)]

---------------------------------------------------------------------------
(* Masking a matrix: Masked::from, Matrix::mask and Matrix::best_mask *)

\* tests::best_mask_1q: the codewords of "HELLO WORLD" at 1-Q
HelloWorldCodewords ==
    <<32, 91, 11, 120, 209, 114, 220, 77, 67, 64, 236, 17, 236, 168, 72, 22, 82, 217, 54,
      156, 0, 46, 15, 180, 122, 16>>

\* codewords of one repeated byte
RepeatedCodewords(byte) == [i \in 1..Len(HelloWorldCodewords) |-> byte]

\* the six values of enum Module, in a fixed order
ModuleSeq == <<Filled("White"), Static("Black"), Empty, Filled("Black"), Reserved, Static("White")>>

\* tests::new_white_matrix, with the modules drawn from ModuleSeq along the
\* diagonals x + 2y: every kind of module meets every mask condition
MixedMatrix(phase, error_correction) ==
    LET size == version_to_size(1)
    IN [version |-> 1,
        error_correction |-> error_correction,
        data |-> [size |-> Point_new(size, size),
                  data |-> [x \in 0..(size - 1) |->
                              [y \in 0..(size - 1) |->
                                 ModuleSeq[((x + 2 * y + phase) % Len(ModuleSeq)) + 1]]]]]

\* tests::new_white_matrix: every module Filled(White)
WhiteMatrix ==
    LET size == version_to_size(1)
    IN [version |-> 1,
        error_correction |-> "Low",
        data |-> [size |-> Point_new(size, size),
                  data |-> [x \in 0..(size - 1) |->
                              [y \in 0..(size - 1) |-> Filled("White")]]]]

\* the matrices handed to the mask functions
MaskInputs ==
    {WhiteMatrix} \cup
    {Matrix_from_data(1, "Quartile", HelloWorldCodewords),
     Matrix_from_data(1, "Quartile", RepeatedCodewords(26)),
     Matrix_from_data(1, "Low", RepeatedCodewords(113))}
    \cup {MixedMatrix(phase, "Low") : phase \in {0, 1}}
    \cup {MixedMatrix(2, "High")}

\* no Masked yet
NoMasked(matrix) == [status |-> "none", mask_reference |-> 0, matrix |-> matrix]

InitMask ==
    /\ EncodingIdle
    /\ BufferIdle
    /\ iter = Idle /\ format = Idle /\ block_iter = Idle
    /\ StageIdle
    /\ \E matrix \in MaskInputs :
          masking = [op |-> "new", matrix |-> matrix, masked |-> NoMasked(matrix),
                     first |-> matrix, score |-> 0]

\* Masked::from(matrix, reference)
MaskedFrom ==
    /\ masking.op = "new"
    /\ \E reference \in 0..MaxMaskInput :
          LET masked == Masked_from(masking.matrix, reference)
          IN masking' = [masking EXCEPT !.op = "Masked::from", !.masked = masked,
                                        !.first = masked.matrix]
    /\ UNCHANGED <<encodingVars, bufferVars, iter, format, block_iter, stageVars>>

\* Masked::from(masked.matrix, masked.mask_reference): the same mask again
MaskedFromAgain ==
    /\ masking.op = "Masked::from"
    /\ masking.masked.status = "Ok"
    /\ masking' = [masking EXCEPT !.op = "twice",
                       !.masked = Masked_from(masking.masked.matrix,
                                              masking.masked.mask_reference)]
    /\ UNCHANGED <<encodingVars, bufferVars, iter, format, block_iter, stageVars>>

\* matrix.mask(mask_reference)
MatrixMask ==
    /\ masking.op = "new"
    /\ \E mask_reference \in 0..MaxMaskInput :
          LET scored == Matrix_mask(masking.matrix, mask_reference)
          IN masking' = [masking EXCEPT !.op = "mask", !.masked = scored.masked,
                                        !.score = scored.score]
    /\ UNCHANGED <<encodingVars, bufferVars, iter, format, block_iter, stageVars>>

\* matrix.best_mask()
BestMask ==
    /\ masking.op = "new"
    /\ LET scored == best_mask(masking.matrix)
       IN masking' = [masking EXCEPT !.op = "best_mask", !.masked = scored.masked,
                                     !.score = scored.score]
    /\ UNCHANGED <<encodingVars, bufferVars, iter, format, block_iter, stageVars>>

NextMask ==
    \/ MaskedFrom
    \/ MaskedFromAgain
    \/ MatrixMask
    \/ BestMask

SpecMask == InitMask /\ [][NextMask]_vars

\* the coordinates of the matrix handed in
MaskCoordinates ==
    LET size == Array2D_size(masking.matrix.data)
    IN (0..(size.x - 1)) \X (0..(size.y - 1))

\* the module of a matrix at a coordinate
ModuleAt(matrix, c) == matrix.data.data[c[1]][c[2]]

\* C16: after the mask of a reference 0..7 was applied twice, the matrix is
\* equal to the matrix handed in, in every module
C16_MaskInvolution ==
    (masking.op = "twice" /\ masking.masked.status = "Ok")
        => /\ masking.masked.matrix = masking.matrix
           /\ \A c \in MaskCoordinates :
                 ModuleAt(masking.masked.matrix, c) = ModuleAt(masking.matrix, c)

\* the mask was applied twice to a matrix that holds all four kinds of
\* module, and the first application inverted a module
C16_Witness ==
    /\ masking.op = "twice"
    /\ masking.masked.status = "Ok"
    /\ masking.first # masking.matrix
    /\ {ModuleAt(masking.matrix, c).kind : c \in MaskCoordinates}
          = {"Filled", "Empty", "Static", "Reserved"}

\* C17: masking with a reference 0..7 leaves every Static, Reserved and
\* Empty module as it was, and a Filled module stays Filled
C17_MaskKeepsKinds ==
    (masking.op = "Masked::from" /\ masking.masked.status = "Ok")
        => \A c \in MaskCoordinates :
              LET before == ModuleAt(masking.matrix, c)
                  after == ModuleAt(masking.masked.matrix, c)
              IN /\ before.kind # "Filled" => after = before
                 /\ before.kind = "Filled" => after.kind = "Filled"

\* a mask was applied to a matrix with Static, Reserved and Empty modules at
\* coordinates where the condition of the mask holds, and it inverted a
\* Filled module
C17_Witness ==
    /\ masking.op = "Masked::from"
    /\ masking.masked.status = "Ok"
    /\ \A kind \in {"Static", "Reserved", "Empty"} :
          \E c \in MaskCoordinates :
             /\ ModuleAt(masking.matrix, c).kind = kind
             /\ condition(masking.masked.mask_reference, c[1], c[2])
    /\ \E c \in MaskCoordinates :
          /\ ModuleAt(masking.matrix, c).kind = "Filled"
          /\ ModuleAt(masking.masked.matrix, c) # ModuleAt(masking.matrix, c)

\* the scores that mask(0) .. mask(7) give for the matrix handed in
MaskScores == [r \in 0..7 |-> Matrix_mask(masking.matrix, r).score]

\* C18: best_mask() returns a candidate of minimal score among the eight
\* references, the lowest reference among those of minimal score, and the
\* score and the matrix that mask(r) gives for the reference r returned
C18_BestMask ==
    masking.op = "best_mask"
        => LET r == masking.masked.mask_reference
           IN /\ r \in 0..7
              /\ \A other \in 0..7 : masking.score <= MaskScores[other]
              /\ \A other \in 0..7 : MaskScores[other] = masking.score => r <= other
              /\ masking.score = MaskScores[r]
              /\ masking.masked = Matrix_mask(masking.matrix, r).masked

\* best_mask() returned for a matrix where two references share the minimal
\* score
C18_Witness ==
    /\ masking.op = "best_mask"
    /\ \E other \in 0..7 :
          /\ other # masking.masked.mask_reference
          /\ MaskScores[other] = masking.score

---------------------------------------------------------------------------
(* The format information: FormatEncoder::encode *)

\* encode() is handed the mask references 0..MaxFormatMask
MaxFormatMask == 31

InitFormat ==
    /\ EncodingIdle
    /\ BufferIdle
    /\ iter = Idle /\ masking = Idle /\ block_iter = Idle
    /\ StageIdle
    /\ \E error_correction_level \in ErrorCorrectionLevel, mask_reference \in 0..MaxFormatMask :
          format = [fe |-> [error_correction_level |-> error_correction_level,
                            mask_reference |-> mask_reference],
                    status |-> "new", sequence |-> 0]

\* fe.encode()
Encode ==
    /\ format.status = "new"
    /\ format' = IF FormatEncoder_encode_panics(format.fe)
                 THEN [format EXCEPT !.status = "Panic"]
                 ELSE [format EXCEPT !.status = "Ok",
                                     !.sequence = FormatEncoder_encode(format.fe)]
    /\ UNCHANGED <<encodingVars, bufferVars, iter, masking, block_iter, stageVars>>

NextFormat == Encode

SpecFormat == InitFormat /\ [][NextFormat]_vars

\* a XOR b, bit by bit
RECURSIVE BitXor(_, _)
BitXor(a, b) ==
    IF a = 0 THEN b
    ELSE IF b = 0 THEN a
    ELSE ((a + b) % 2) + 2 * BitXor(a \div 2, b \div 2)

\* the remainder of a polynomial of degree at most `degree` over GF(2),
\* divided by the generator 0b10100110111 (1335, degree 10)
RECURSIVE BchRemainder(_, _)
BchRemainder(value, degree) ==
    IF degree < 10 THEN value
    ELSE BchRemainder(IF BitSet(value, degree)
                      THEN BitXor(value, 1335 * Pow2(degree - 10))
                      ELSE value,
                      degree - 1)

\* the two bits of a level: L = 01, M = 00, Q = 11, H = 10
LevelBits(level) ==
    CASE level = "Low" -> 1
      [] level = "Medium" -> 0
      [] level = "Quartile" -> 3
      [] level = "High" -> 2

\* (d << 10 | r) XOR 0x5412 (21522), r the remainder of d * x^10
BchFormat(level, mask_ref) ==
    LET d == (LevelBits(level) * 8) + mask_ref
        r == BchRemainder(d * 1024, 14)
    IN BitXor((d * 1024) + r, 21522)

\* C19: for every level and every mask reference 0..7, encode() returns the
\* BCH(15,5) code of the five data bits XOR 0x5412, a value of 15 bits
C19_FormatIsBch ==
    (format.status # "new" /\ format.fe.mask_reference \in 0..7)
        => /\ format.status = "Ok"
           /\ format.sequence = BchFormat(format.fe.error_correction_level,
                                          format.fe.mask_reference)
           /\ format.sequence \in 0..(Pow2(15) - 1)

\* encode() returned for level H and mask 7, the last arm of a level whose
\* bits differ from its place in the enum
C19_Witness ==
    /\ format.status = "Ok"
    /\ format.fe = [error_correction_level |-> "High", mask_reference |-> 7]
    /\ format.sequence = masked_sequence(23)

---------------------------------------------------------------------------
(* src/src/blocks.rs: BlockLengthIterator *)

\* the versions handed to BlockLengthIterator::new are 0..MaxBlockVersion
MaxBlockVersion == 6

\* the calls of next() and reset() made on one iterator
MaxBlockCalls == 8

\* struct BlockLength
BlockLength(block_number, block_count, data_pos, data_len, ecc_pos, ecc_len) ==
    [block_number |-> block_number, block_count |-> block_count,
     data_pos |-> data_pos, data_len |-> data_len,
     ecc_pos |-> ecc_pos, ecc_len |-> ecc_len]

\* Option<BlockLength>: None, Some(block)
NoBlock == [some |-> FALSE, block |-> BlockLength(0, 0, 0, 0, 0, 0)]
SomeBlock(block) == [some |-> TRUE, block |-> block]

\* BlockLengthIterator::new
BlockLengthIterator_new(version, error_correction) ==
    [version |-> version, error_correction |-> error_correction, last |-> NoBlock]

\* BlockLengthIterator::reset
BlockLengthIterator_reset(it) == [it EXCEPT !.last = NoBlock]

\* the first call of next(): the block 0, or the failure of assert_eq!
BlockLengthIterator_first(it, data_len) ==
    LET count == error_correction_codeword_blocks_count(it.version, it.error_correction)
        ecc_len == count[1]
        blocks == count[2]
    IN IF ecc_len % blocks # 0
       THEN [status |-> "Panic", it |-> it, item |-> NoBlock]
       ELSE LET first == SomeBlock(BlockLength(0, blocks, 0, data_len \div blocks,
                                               data_len, ecc_len \div blocks))
            IN [status |-> "Ok", it |-> [it EXCEPT !.last = first], item |-> first]

\* a variant of the later calls that lengthens the blocks one block early
BlockLengthIterator_following_growing_early(it, data_len) ==
    LET last == it.last.block
        block_number == last.block_number + 1
    IN IF block_number < last.block_count
       THEN LET next == SomeBlock(
                    [last EXCEPT !.block_number = block_number,
                                 !.data_pos = last.data_pos + last.data_len,
                                 !.ecc_pos = last.ecc_pos + last.ecc_len,
                                 !.data_len = IF block_number + 1 = data_len % last.block_count
                                              THEN last.data_len + 1
                                              ELSE last.data_len])
            IN [status |-> "Ok", it |-> [it EXCEPT !.last = next], item |-> next]
       ELSE [status |-> "Ok",
             it |-> [it EXCEPT !.last.block.block_number = block_number],
             item |-> NoBlock]

\* a variant of the later calls that keeps data_len as it is
BlockLengthIterator_following_same_length(it, data_len) ==
    LET last == it.last.block
        block_number == last.block_number + 1
    IN IF block_number < last.block_count
       THEN LET next == SomeBlock(
                    [last EXCEPT !.block_number = block_number,
                                 !.data_pos = last.data_pos + last.data_len,
                                 !.ecc_pos = last.ecc_pos + last.ecc_len])
            IN [status |-> "Ok", it |-> [it EXCEPT !.last = next], item |-> next]
       ELSE [status |-> "Ok",
             it |-> [it EXCEPT !.last.block.block_number = block_number],
             item |-> NoBlock]

\* the later calls of next(): block_number is incremented in place, also
\* when None is returned
BlockLengthIterator_following(it, data_len) ==
    LET last == it.last.block
        block_number == last.block_number + 1
    IN IF block_number < last.block_count
       THEN LET next == SomeBlock(
                    [last EXCEPT !.block_number = block_number,
                                 !.data_pos = last.data_pos + last.data_len,
                                 !.ecc_pos = last.ecc_pos + last.ecc_len,
                                 !.data_len = IF block_number = data_len % last.block_count
                                              THEN last.data_len + 1
                                              ELSE last.data_len])
            IN [status |-> "Ok", it |-> [it EXCEPT !.last = next], item |-> next]
       ELSE [status |-> "Ok",
             it |-> [it EXCEPT !.last.block.block_number = block_number],
             item |-> NoBlock]

\* BlockLengthIterator::next; data_codeword_count() panics for a version
\* outside the tables
BlockLengthIterator_next(it) ==
    IF data_codeword_count_panics(it.version, it.error_correction)
    THEN [status |-> "Panic", it |-> it, item |-> NoBlock]
    ELSE LET data_len == data_codeword_count(it.version, it.error_correction)
         IN IF ~it.last.some
            THEN BlockLengthIterator_first(it, data_len)
            ELSE BlockLengthIterator_following(it, data_len)

InitBlocks ==
    /\ EncodingIdle
    /\ BufferIdle
    /\ iter = Idle /\ masking = Idle /\ format = Idle
    /\ StageIdle
    /\ \E version \in 0..MaxBlockVersion, error_correction \in ErrorCorrectionLevel :
          block_iter = [it |-> BlockLengthIterator_new(version, error_correction),
                        status |-> "new", item |-> NoBlock,
                        returned |-> <<>>, calls |-> 0]

\* iter.next(); `returned` keeps the blocks returned since new() or reset()
BlockNext ==
    /\ block_iter.status # "Panic"
    /\ block_iter.calls < MaxBlockCalls
    /\ LET r == BlockLengthIterator_next(block_iter.it)
       IN block_iter' = [it |-> r.it,
                         status |-> IF r.status = "Panic" THEN "Panic"
                                    ELSE IF r.item.some THEN "Some" ELSE "None",
                         item |-> r.item,
                         returned |-> IF r.status = "Ok" /\ r.item.some
                                      THEN Append(block_iter.returned, r.item.block)
                                      ELSE block_iter.returned,
                         calls |-> block_iter.calls + 1]
    /\ UNCHANGED <<encodingVars, bufferVars, iter, masking, format, stageVars>>

\* iter.reset()
BlockReset ==
    /\ block_iter.status \in {"Some", "None"}
    /\ block_iter.calls < MaxBlockCalls
    /\ block_iter' = [it |-> BlockLengthIterator_reset(block_iter.it),
                      status |-> "reset", item |-> NoBlock,
                      returned |-> <<>>, calls |-> block_iter.calls + 1]
    /\ UNCHANGED <<encodingVars, bufferVars, iter, masking, format, stageVars>>

NextBlocks ==
    \/ BlockNext
    \/ BlockReset

SpecBlocks == InitBlocks /\ [][NextBlocks]_vars

\* the sum of a field over the blocks 1..n returned
RECURSIVE SumOfBlocks(_, _, _)
SumOfBlocks(blocks, n, field) ==
    IF n = 0 THEN 0 ELSE blocks[n][field] + SumOfBlocks(blocks, n - 1, field)

\* the version of the iterator has an entry in the tables of qr_version.rs
BlockVersionSupported ==
    ~data_codeword_count_panics(block_iter.it.version, block_iter.it.error_correction)

\* C20: for every supported (version, level) the assertion of next() never
\* fails, every block has ecc_len = total_ecc / block_count, data_pos is the
\* sum of the data_len of the blocks before, ecc_pos is data_codeword_count
\* + block_number * ecc_len, and when next() returns None the blocks
\* returned are block_count blocks whose data_len sum to data_codeword_count
\* and whose ecc_len sum to total_ecc
C20_BlocksPartition ==
    BlockVersionSupported
        => LET version == block_iter.it.version
               level == block_iter.it.error_correction
               count == error_correction_codeword_blocks_count(version, level)
               total_ecc == count[1]
               block_count == count[2]
               data_len == data_codeword_count(version, level)
               blocks == block_iter.returned
           IN /\ block_iter.status # "Panic"
              /\ total_ecc % block_count = 0
              /\ \A i \in 1..Len(blocks) :
                    /\ blocks[i].block_number = i - 1
                    /\ blocks[i].block_count = block_count
                    /\ blocks[i].ecc_len * block_count = total_ecc
                    /\ blocks[i].data_pos = SumOfBlocks(blocks, i - 1, "data_len")
                    /\ blocks[i].ecc_pos = data_len + blocks[i].block_number * blocks[i].ecc_len
              /\ block_iter.status = "None"
                    => /\ Len(blocks) = block_count
                       /\ SumOfBlocks(blocks, Len(blocks), "data_len") = data_len
                       /\ SumOfBlocks(blocks, Len(blocks), "ecc_len") = total_ecc
                       /\ data_len + total_ecc = total_codeword_count(version)

\* next() returned None after four blocks of which the first is shorter
\* than the last (5-Q and 5-H)
C20_Witness ==
    /\ BlockVersionSupported
    /\ block_iter.status = "None"
    /\ Len(block_iter.returned) = 4
    /\ block_iter.returned[1].data_len < block_iter.returned[4].data_len

---------------------------------------------------------------------------
(* src/src/matrix.rs: PositionIterator *)

\* PositionIterator::new is handed the sizes of the versions 1..MaxPositionVersion
MaxPositionVersion == 2

\* next() is called this many times more than the grid has coordinates
\* outside column 6
MaxPositionExtraCalls == 3

\* Option<Point>
NoPoint == [some |-> FALSE, pos |-> Point_new(0, 0)]
SomePoint(pos) == [some |-> TRUE, pos |-> pos]

\* PositionIterator::new
PositionIterator_new(size) ==
    [size |-> size,
     current_pos |-> Point_new(size.x - 1, size.y - 1),
     next_pos |-> NoPoint,
     upwards |-> TRUE]

\* `self.current_pos.y -= 2` and the step over column 6.  A usize below 0
\* is an overflow: a build with overflow checks panics, a build without
\* wraps, and the wrapped value v - 2^64 is written here as the negative v.
PositionIterator_next_strip(it, upwards, overflow_checks) ==
    LET y == it.current_pos.y - 2
        after == IF y = 6 THEN y - 1 ELSE y
    IN IF overflow_checks /\ it.current_pos.y \in 0..1
       THEN [status |-> "Panic", it |-> it, item |-> NoPoint]
       ELSE [status |-> "Ok",
             it |-> [it EXCEPT !.upwards = upwards, !.current_pos.y = after],
             item |-> SomePoint(it.current_pos)]

\* a variant of next() that walks every strip upwards
PositionIterator_next_always_upwards(it, overflow_checks) ==
    IF it.next_pos.some
    THEN [status |-> "Ok", it |-> [it EXCEPT !.next_pos = NoPoint], item |-> it.next_pos]
    ELSE IF overflow_checks /\ it.current_pos.y = 0
    THEN [status |-> "Panic", it |-> it, item |-> NoPoint]
    ELSE LET current_pos == it.current_pos
             stepped == [it EXCEPT !.next_pos =
                            SomePoint(Point_new(current_pos.x, current_pos.y - 1))]
         IN IF current_pos.x = 0
            THEN PositionIterator_next_strip(
                     [stepped EXCEPT !.current_pos.x = it.size.x - 1], TRUE, overflow_checks)
            ELSE [status |-> "Ok",
                  it |-> [stepped EXCEPT !.current_pos.x = current_pos.x - 1],
                  item |-> SomePoint(current_pos)]

\* PositionIterator::next: [status, it, item]
PositionIterator_next(it, overflow_checks) ==
    IF it.next_pos.some
    THEN [status |-> "Ok", it |-> [it EXCEPT !.next_pos = NoPoint], item |-> it.next_pos]
    ELSE IF overflow_checks /\ it.current_pos.y = 0
    THEN [status |-> "Panic", it |-> it, item |-> NoPoint]
    ELSE LET current_pos == it.current_pos
             stepped == [it EXCEPT !.next_pos =
                            SomePoint(Point_new(current_pos.x, current_pos.y - 1))]
         IN IF it.upwards
            THEN IF current_pos.x = 0
                 THEN PositionIterator_next_strip(stepped, FALSE, overflow_checks)
                 ELSE [status |-> "Ok",
                       it |-> [stepped EXCEPT !.current_pos.x = current_pos.x - 1],
                       item |-> SomePoint(current_pos)]
            ELSE IF current_pos.x = it.size.x - 1
                 THEN PositionIterator_next_strip(stepped, TRUE, overflow_checks)
                 ELSE [status |-> "Ok",
                       it |-> [stepped EXCEPT !.current_pos.x = current_pos.x + 1],
                       item |-> SomePoint(current_pos)]

\* the coordinates of a size outside column 6
PositionCount(size) == size.x * (size.y - 1)

InitPosition ==
    /\ EncodingIdle
    /\ BufferIdle
    /\ UnitsIdle
    /\ placing = Idle /\ codewords = Idle /\ interleave = Idle /\ proportion = Idle
    /\ \E version \in 1..MaxPositionVersion, overflow_checks \in BOOLEAN :
          LET size == version_to_size(version)
          IN position = [it |-> PositionIterator_new(Point_new(size, size)),
                         overflow_checks |-> overflow_checks,
                         status |-> "new", yielded |-> <<>>, calls |-> 0]

\* pos_iter.next(); `yielded` keeps the positions returned
PositionNext ==
    /\ position.status # "Panic"
    /\ position.calls < PositionCount(position.it.size) + MaxPositionExtraCalls
    /\ LET r == PositionIterator_next(position.it, position.overflow_checks)
       IN position' = [position EXCEPT
                          !.it = r.it,
                          !.status = r.status,
                          !.yielded = IF r.status = "Ok"
                                      THEN Append(position.yielded, r.item.pos)
                                      ELSE position.yielded,
                          !.calls = position.calls + 1]
    /\ UNCHANGED <<encodingVars, bufferVars, unitVars,
                   placing, codewords, interleave, proportion>>

NextPosition == PositionNext

SpecPosition == InitPosition /\ [][NextPosition]_vars

\* the first positions yielded follow the walk: position number i is the
\* coordinate that the closed form PositionIndex numbers i - 1, inside the
\* grid and outside column 6
PositionOrder ==
    LET size == position.it.size
    IN \A i \in 1..Len(position.yielded) :
          i <= PositionCount(size)
             => LET pos == position.yielded[i]
                IN /\ pos.x \in 0..(size.x - 1)
                   /\ pos.y \in 0..(size.y - 1)
                   /\ pos.y # 6
                   /\ PositionIndex(size, pos.x, pos.y) = i - 1

\* C27: the iterator starts at (W-1, W-1) and produces all W*(W-1)
\* coordinates outside column 6, each once, in the order of the strips
C27_PositionsAllOnce ==
    /\ position.status # "Panic"
    /\ PositionOrder
    /\ position.calls >= 1
          => position.yielded[1] = Point_new(position.it.size.x - 1, position.it.size.y - 1)
    /\ position.calls >= PositionCount(position.it.size)
          => { position.yielded[i] : i \in 1..PositionCount(position.it.size) }
                = { Point_new(x, y) : x \in 0..(position.it.size.x - 1),
                                      y \in (0..(position.it.size.y - 1)) \ {6} }

\* C27, as far as the code goes: the positions follow the walk, and a build
\* without overflow checks produces all of them; a build with overflow
\* checks panics in the call that would return the last position but one
C27_PositionsUntilOverflow ==
    /\ PositionOrder
    /\ ~position.overflow_checks => position.status # "Panic"
    /\ position.status = "Panic"
          => Len(position.yielded) = PositionCount(position.it.size) - 2

\* the build with overflow checks panicked
C27_Witness ==
    /\ position.status = "Panic"
    /\ position.overflow_checks
    /\ Len(position.yielded) = PositionCount(position.it.size) - 2

---------------------------------------------------------------------------
(* src/src/matrix.rs: the version 1 matrix, from Matrix::new to place_data
   and place_format *)

\* impl Debug for Matrix: one character for a module, written here as "B"
\* (U+2593, Static Black), "W" (U+2591, Static White), "r" (U+2592,
\* Reserved), "1" (U+2588, Filled Black), "0" ('_', Filled White) and "e"
\* (U+FFFD, Empty)
Matrix_fmt_char(module) ==
    CASE module = Static("Black") -> "B"
      [] module = Static("White") -> "W"
      [] module = Reserved -> "r"
      [] module = Filled("Black") -> "1"
      [] module = Filled("White") -> "0"
      [] module = Empty -> "e"

\* impl Debug for Matrix: a line for every row data[x], a character for
\* every module data[x][y] of the row
Matrix_fmt(array) ==
    [line \in 1..Array2D_size(array).x |->
        [char \in 1..Array2D_size(array).y |->
            Matrix_fmt_char(array.data[line - 1][char - 1])]]

\* tests::placement: the codewords placed and the rendering asserted
PlacementCodewords ==
    <<16, 32, 12, 86, 97, 128, 236, 17, 236, 17, 236, 17, 236, 17, 236, 17,
      165, 36, 212, 193, 237, 54, 199, 135, 44, 85>>

PlacementRendering ==
    <<<<"B", "B", "B", "B", "B", "B", "B", "W", "r", "0", "0", "1", "0", "W", "B", "B", "B", "B", "B", "B", "B">>,
      <<"B", "W", "W", "W", "W", "W", "B", "W", "r", "0", "1", "1", "0", "W", "B", "W", "W", "W", "W", "W", "B">>,
      <<"B", "W", "B", "B", "B", "W", "B", "W", "r", "1", "0", "0", "1", "W", "B", "W", "B", "B", "B", "W", "B">>,
      <<"B", "W", "B", "B", "B", "W", "B", "W", "r", "0", "0", "0", "1", "W", "B", "W", "B", "B", "B", "W", "B">>,
      <<"B", "W", "B", "B", "B", "W", "B", "W", "r", "1", "1", "1", "0", "W", "B", "W", "B", "B", "B", "W", "B">>,
      <<"B", "W", "W", "W", "W", "W", "B", "W", "r", "1", "0", "0", "0", "W", "B", "W", "W", "W", "W", "W", "B">>,
      <<"B", "B", "B", "B", "B", "B", "B", "W", "B", "W", "B", "W", "B", "W", "B", "B", "B", "B", "B", "B", "B">>,
      <<"W", "W", "W", "W", "W", "W", "W", "W", "r", "1", "0", "1", "0", "W", "W", "W", "W", "W", "W", "W", "W">>,
      <<"r", "r", "r", "r", "r", "r", "B", "r", "r", "0", "0", "0", "0", "r", "r", "r", "r", "r", "r", "r", "r">>,
      <<"1", "0", "0", "0", "0", "1", "W", "1", "1", "1", "1", "0", "0", "0", "0", "0", "0", "1", "0", "0", "0">>,
      <<"1", "0", "1", "1", "0", "0", "B", "1", "0", "0", "0", "1", "1", "1", "0", "1", "1", "1", "0", "1", "1">>,
      <<"1", "0", "0", "1", "1", "0", "W", "0", "0", "0", "0", "0", "1", "0", "0", "0", "1", "1", "0", "0", "0">>,
      <<"1", "0", "0", "0", "1", "1", "B", "1", "1", "1", "0", "1", "1", "1", "0", "1", "1", "0", "1", "0", "0">>,
      <<"W", "W", "W", "W", "W", "W", "W", "W", "r", "1", "1", "1", "0", "1", "1", "1", "0", "1", "0", "0", "0">>,
      <<"B", "B", "B", "B", "B", "B", "B", "W", "r", "0", "1", "0", "0", "0", "1", "0", "0", "0", "1", "0", "0">>,
      <<"B", "W", "W", "W", "W", "W", "B", "W", "r", "1", "1", "1", "0", "1", "1", "1", "0", "0", "0", "0", "1">>,
      <<"B", "W", "B", "B", "B", "W", "B", "W", "r", "1", "0", "0", "0", "0", "0", "0", "0", "1", "0", "0", "0">>,
      <<"B", "W", "B", "B", "B", "W", "B", "W", "r", "0", "0", "0", "0", "0", "0", "0", "0", "0", "1", "0", "0">>,
      <<"B", "W", "B", "B", "B", "W", "B", "W", "r", "1", "1", "1", "1", "1", "0", "1", "1", "0", "0", "0", "0">>,
      <<"B", "W", "W", "W", "W", "W", "B", "W", "r", "1", "0", "0", "1", "0", "0", "0", "1", "0", "0", "1", "0">>,
      <<"B", "B", "B", "B", "B", "B", "B", "W", "r", "0", "1", "1", "1", "1", "0", "1", "1", "0", "0", "0", "0">>>>

\* tests::format: the rendering asserted for place_format(0b100000011001110)
\* after fill_reserved
FormatRendering ==
    <<<<"e", "e", "e", "e", "e", "e", "e", "e", "W", "e", "e", "e", "e", "e", "e", "e", "e", "e", "e", "e", "e">>,
      <<"e", "e", "e", "e", "e", "e", "e", "e", "B", "e", "e", "e", "e", "e", "e", "e", "e", "e", "e", "e", "e">>,
      <<"e", "e", "e", "e", "e", "e", "e", "e", "B", "e", "e", "e", "e", "e", "e", "e", "e", "e", "e", "e", "e">>,
      <<"e", "e", "e", "e", "e", "e", "e", "e", "B", "e", "e", "e", "e", "e", "e", "e", "e", "e", "e", "e", "e">>,
      <<"e", "e", "e", "e", "e", "e", "e", "e", "W", "e", "e", "e", "e", "e", "e", "e", "e", "e", "e", "e", "e">>,
      <<"e", "e", "e", "e", "e", "e", "e", "e", "W", "e", "e", "e", "e", "e", "e", "e", "e", "e", "e", "e", "e">>,
      <<"e", "e", "e", "e", "e", "e", "e", "e", "e", "e", "e", "e", "e", "e", "e", "e", "e", "e", "e", "e", "e">>,
      <<"e", "e", "e", "e", "e", "e", "e", "e", "B", "e", "e", "e", "e", "e", "e", "e", "e", "e", "e", "e", "e">>,
      <<"B", "W", "W", "W", "W", "W", "e", "W", "B", "e", "e", "e", "e", "B", "B", "W", "W", "B", "B", "B", "W">>,
      <<"e", "e", "e", "e", "e", "e", "e", "e", "e", "e", "e", "e", "e", "e", "e", "e", "e", "e", "e", "e", "e">>,
      <<"e", "e", "e", "e", "e", "e", "e", "e", "e", "e", "e", "e", "e", "e", "e", "e", "e", "e", "e", "e", "e">>,
      <<"e", "e", "e", "e", "e", "e", "e", "e", "e", "e", "e", "e", "e", "e", "e", "e", "e", "e", "e", "e", "e">>,
      <<"e", "e", "e", "e", "e", "e", "e", "e", "e", "e", "e", "e", "e", "e", "e", "e", "e", "e", "e", "e", "e">>,
      <<"e", "e", "e", "e", "e", "e", "e", "e", "B", "e", "e", "e", "e", "e", "e", "e", "e", "e", "e", "e", "e">>,
      <<"e", "e", "e", "e", "e", "e", "e", "e", "W", "e", "e", "e", "e", "e", "e", "e", "e", "e", "e", "e", "e">>,
      <<"e", "e", "e", "e", "e", "e", "e", "e", "W", "e", "e", "e", "e", "e", "e", "e", "e", "e", "e", "e", "e">>,
      <<"e", "e", "e", "e", "e", "e", "e", "e", "W", "e", "e", "e", "e", "e", "e", "e", "e", "e", "e", "e", "e">>,
      <<"e", "e", "e", "e", "e", "e", "e", "e", "W", "e", "e", "e", "e", "e", "e", "e", "e", "e", "e", "e", "e">>,
      <<"e", "e", "e", "e", "e", "e", "e", "e", "W", "e", "e", "e", "e", "e", "e", "e", "e", "e", "e", "e", "e">>,
      <<"e", "e", "e", "e", "e", "e", "e", "e", "W", "e", "e", "e", "e", "e", "e", "e", "e", "e", "e", "e", "e">>,
      <<"e", "e", "e", "e", "e", "e", "e", "e", "B", "e", "e", "e", "e", "e", "e", "e", "e", "e", "e", "e", "e">>>>

\* the codewords handed to place_data: the 26 codewords of version 1 (the
\* test's, all 0, all 255, "HELLO WORLD" at 1-Q), 16 codewords and 27
PlaceDataInputs ==
    {PlacementCodewords, HelloWorldCodewords, RepeatedCodewords(0), RepeatedCodewords(255),
     SubSeq(PlacementCodewords, 1, 16), Append(PlacementCodewords, 0)}

\* the 15 bit values handed to place_format: the 32 format sequences, the
\* value of tests::format, all zeros and all ones
PlaceFormatInputs ==
    { MaskedSequenceTable[i] : i \in 1..Len(MaskedSequenceTable) }
        \cup {16590, 0, Pow2(15) - 1}

FillFunctions == {"fill_finder_patterns", "fill_reserved", "fill_timing_pattern"}

\* Matrix::new
InitPlace ==
    /\ EncodingIdle
    /\ BufferIdle
    /\ UnitsIdle
    /\ position = Idle /\ codewords = Idle /\ interleave = Idle /\ proportion = Idle
    /\ LET matrix == Array2D_of(version_to_size(1), Empty)
       IN placing = [matrix |-> matrix, before |-> matrix, op |-> "new", status |-> "Ok",
                     done |-> {}, bytes |-> <<>>, bits |-> 0]

\* no call has panicked, and the function `op` has not been called
CanPlace(op) == placing.status = "Ok" /\ op \notin placing.done

\* the state after the call `op` returned `matrix`
Placed(op, matrix, bytes, bits) ==
    [matrix |-> matrix, before |-> placing.matrix, op |-> op, status |-> "Ok",
     done |-> placing.done \cup {op}, bytes |-> bytes, bits |-> bits]

\* matrix.fill_finder_patterns()
FillFinderPatterns ==
    /\ CanPlace("fill_finder_patterns")
    /\ placing.done \subseteq FillFunctions
    /\ placing' = Placed("fill_finder_patterns", fill_finder_patterns(placing.matrix), <<>>, 0)
    /\ UNCHANGED <<encodingVars, bufferVars, unitVars,
                   position, codewords, interleave, proportion>>

\* matrix.fill_reserved()
FillReserved ==
    /\ CanPlace("fill_reserved")
    /\ placing.done \subseteq FillFunctions
    /\ placing' = Placed("fill_reserved", fill_reserved(placing.matrix), <<>>, 0)
    /\ UNCHANGED <<encodingVars, bufferVars, unitVars,
                   position, codewords, interleave, proportion>>

\* matrix.fill_timing_pattern()
FillTimingPattern ==
    /\ CanPlace("fill_timing_pattern")
    /\ placing.done \subseteq FillFunctions
    /\ placing' = Placed("fill_timing_pattern", fill_timing_pattern(placing.matrix), <<>>, 0)
    /\ UNCHANGED <<encodingVars, bufferVars, unitVars,
                   position, codewords, interleave, proportion>>

\* matrix.place_data(data), after the three fill functions
PlaceData ==
    /\ CanPlace("place_data")
    /\ FillFunctions \subseteq placing.done
    /\ \E data \in PlaceDataInputs :
          placing' = IF place_data_panics(placing.matrix, data)
                     THEN [Placed("place_data", placing.matrix, data, 0)
                              EXCEPT !.status = "Panic"]
                     ELSE Placed("place_data", place_data(placing.matrix, data), data, 0)
    /\ UNCHANGED <<encodingVars, bufferVars, unitVars,
                   position, codewords, interleave, proportion>>

\* matrix.place_format(data), after fill_reserved
PlaceFormat ==
    /\ CanPlace("place_format")
    /\ "fill_reserved" \in placing.done
    /\ \E data \in PlaceFormatInputs :
          placing' = Placed("place_format", place_format(placing.matrix, data), <<>>, data)
    /\ UNCHANGED <<encodingVars, bufferVars, unitVars,
                   position, codewords, interleave, proportion>>

NextPlace ==
    \/ FillFinderPatterns
    \/ FillReserved
    \/ FillTimingPattern
    \/ PlaceData
    \/ PlaceFormat

SpecPlace == InitPlace /\ [][NextPlace]_vars

\* the coordinates of the matrix
PlaceCoordinates ==
    LET size == Array2D_size(placing.matrix)
    IN (0..(size.x - 1)) \X (0..(size.y - 1))

\* the coordinates where a matrix holds a module of a kind
CoordinatesOfKind(array, kind) ==
    { c \in PlaceCoordinates : array.data[c[1]][c[2]].kind = kind }

\* the number, counted from 0, that the walk of PositionIterator gives a
\* coordinate among the coordinates that were Empty before place_data
EmptyRank(c) ==
    LET size == Array2D_size(placing.before)
    IN Cardinality({ d \in CoordinatesOfKind(placing.before, "Empty") :
                       d[2] # 6 /\ PositionIndex(size, d[1], d[2]) < PositionIndex(size, c[1], c[2]) })

\* C21: on the version 1 matrix with finder patterns, reserved modules and
\* timing patterns, place_data with total_codeword_count codewords leaves no
\* Empty module, makes as many Filled modules as there are bits, Black for
\* a bit 1 and White for a bit 0 in the order of the walk, and changes no
\* other module; the codewords of tests::placement give its rendering
C21_PlacementFillsEmpty ==
    (placing.op = "place_data" /\ Len(placing.bytes) = total_codeword_count(1))
        => /\ placing.status = "Ok"
           /\ CoordinatesOfKind(placing.matrix, "Empty") = {}
           /\ Cardinality(CoordinatesOfKind(placing.matrix, "Filled")) = 8 * Len(placing.bytes)
           /\ CoordinatesOfKind(placing.matrix, "Filled")
                 = CoordinatesOfKind(placing.before, "Empty")
           /\ \A c \in PlaceCoordinates :
                 LET before == placing.before.data[c[1]][c[2]]
                     after == placing.matrix.data[c[1]][c[2]]
                 IN IF before = Empty
                    THEN after = IF BitIterator_bit(placing.bytes, EmptyRank(c))
                                 THEN Filled("Black") ELSE Filled("White")
                    ELSE after = before
           /\ (placing.bytes = PlacementCodewords /\ "place_format" \notin placing.done)
                 => Matrix_fmt(placing.matrix) = PlacementRendering

\* place_data returned for the codewords of tests::placement
C21_Witness ==
    /\ placing.op = "place_data"
    /\ placing.status = "Ok"
    /\ placing.bytes = PlacementCodewords
    /\ placing.done = FillFunctions \cup {"place_data"}
    /\ CoordinatesOfKind(placing.before, "Empty") # {}
    /\ CoordinatesOfKind(placing.before, "Reserved") # {}

\* the positions place_format writes: two for every bit, and the dark module
FormatWritten(size) ==
    UNION { FormatPositions(size, index) : index \in 0..14 }
        \cup {Point_new(size.y - 8, 8)}

\* C28: place_format writes every bit 0..14 (bit 0 the least significant)
\* as a Static module to two positions, one beside the top-left finder and
\* one in the strips beside the other finders, and Static Black to the dark
\* module (W-8, 8); the 31 positions are distinct and are the positions
\* fill_reserved marks, so no Reserved module remains and no other module is
\* modified; tests::format gives the rendering for 0b100000011001110
C28_FormatFillsReserved ==
    placing.op = "place_format"
        => LET size == Array2D_size(placing.matrix)
               written == FormatWritten(size)
               at(array, pos) == array.data[pos.x][pos.y]
               colour(index) == IF BitSet(placing.bits, index) THEN "Black" ELSE "White"
           IN /\ Cardinality(written) = 31
              /\ { Point_new(c[1], c[2]) :
                      c \in CoordinatesOfKind(fill_reserved(Array2D_of(size.x, Empty)), "Reserved") }
                    = written
              /\ \A index \in 0..14 :
                    /\ Cardinality(FormatPositions(size, index)) = 2
                    /\ \E pos1, pos2 \in FormatPositions(size, index) :
                          /\ pos1.x <= 8 /\ pos1.y <= 8
                          /\ \/ pos2.x = 8 /\ pos2.y >= size.y - 8
                             \/ pos2.y = 8 /\ pos2.x >= size.x - 7
                          /\ at(placing.matrix, pos1) = Static(colour(index))
                          /\ at(placing.matrix, pos2) = Static(colour(index))
              /\ at(placing.matrix, Point_new(size.x - 8, 8)) = Static("Black")
              /\ CoordinatesOfKind(placing.matrix, "Reserved") = {}
              /\ \A c \in PlaceCoordinates :
                    Point_new(c[1], c[2]) \notin written
                       => placing.matrix.data[c[1]][c[2]] = placing.before.data[c[1]][c[2]]
              /\ (placing.bits = 16590 /\ placing.done = {"fill_reserved", "place_format"})
                    => Matrix_fmt(placing.matrix) = FormatRendering

\* place_format returned on the matrix of tests::placement, with Reserved
\* modules before it and Filled modules beside them
C28_Witness ==
    /\ placing.op = "place_format"
    /\ FillFunctions \cup {"place_data"} \subseteq placing.done
    /\ Cardinality(CoordinatesOfKind(placing.before, "Reserved")) = 31
    /\ placing.bits = MaskedSequenceTable[32]

---------------------------------------------------------------------------
(* src/src/error_correction.rs: add_error_correction, over the encoder of
   the crate reed_solomon (section 4.5) *)

\* add_error_correction is handed the versions 0..MaxEccVersion
MaxEccVersion == 6

\* a XOR b of two bytes
RECURSIVE ByteXor(_, _)
ByteXor(a, b) ==
    IF a = 0 THEN b
    ELSE IF b = 0 THEN a
    ELSE ((a + b) % 2) + 2 * ByteXor(a \div 2, b \div 2)

\* a * 2 in GF(2^8) with the primitive polynomial 0x11D (285)
gf_double(a) == IF 2 * a < 256 THEN 2 * a ELSE ByteXor(2 * a, 285)

\* a * b in GF(2^8)
RECURSIVE gf_mul(_, _)
gf_mul(a, b) ==
    IF b = 0 \/ a = 0 THEN 0
    ELSE ByteXor(IF b % 2 = 1 THEN a ELSE 0, gf_mul(gf_double(a), b \div 2))

\* alpha^i, alpha = 2
RECURSIVE gf_exp(_)
gf_exp(i) == IF i = 0 THEN 1 ELSE gf_double(gf_exp(i - 1))

\* a polynomial without its leading 1, the highest power first, times
\* (x - root)
times_x_minus_root(g, root) ==
    LET coefficient(j) == IF j = 0 THEN 1 ELSE g[j]
    IN [j \in 1..(Len(g) + 1) |->
           ByteXor(IF j <= Len(g) THEN g[j] ELSE 0, gf_mul(coefficient(j - 1), root))]

\* the generator polynomial of `ecc_len` error correction codewords without
\* its leading 1, the highest power first: the product of (x - alpha^i),
\* i = 0..ecc_len - 1
RECURSIVE generator_polynomial(_)
generator_polynomial(ecc_len) ==
    IF ecc_len = 0 THEN <<>>
    ELSE times_x_minus_root(generator_polynomial(ecc_len - 1), gf_exp(ecc_len - 1))

\* one step of the division: the remainder after one more data byte
remainder_step(remainder, generator, byte) ==
    LET factor == ByteXor(byte, remainder[1])
        n == Len(remainder)
    IN [j \in 1..n |->
           ByteXor(IF j < n THEN remainder[j + 1] ELSE 0, gf_mul(generator[j], factor))]

\* the remainder after the bytes lo..hi of data
RECURSIVE remainder_range(_, _, _, _, _)
remainder_range(remainder, generator, data, lo, hi) ==
    IF lo > hi \/ Len(remainder) = 0 \/ Len(generator) = 0 THEN remainder
    ELSE IF lo = hi THEN remainder_step(remainder, generator, data[lo])
    ELSE LET mid == (lo + hi) \div 2
         IN remainder_range(remainder_range(remainder, generator, data, lo, mid),
                            generator, data, mid + 1, hi)

\* reed_solomon::Encoder::new(ecc_len).encode(data).ecc(): the remainder of
\* data * x^ecc_len divided by the generator polynomial
Encoder_encode_ecc(ecc_len, data) ==
    remainder_range([j \in 1..ecc_len |-> 0], generator_polynomial(ecc_len),
                    data, 1, Len(data))

\* the result of add_error_correction when it panics
PanickedData(data) ==
    [status |-> "Panic", version |-> data.version,
     error_correction |-> data.error_correction, buffer |-> PanickedBuffer]

\* a variant of the loop that slices every block from the start of the buffer
RECURSIVE add_error_correction_slicing_from_zero(_, _)
add_error_correction_slicing_from_zero(buffer, blocks) ==
    LET next == BlockLengthIterator_next(blocks)
        block == next.item.block
    IN IF buffer.panicked \/ next.status = "Panic" THEN PanickedBuffer
       ELSE IF ~next.item.some THEN buffer
       ELSE IF Buffer_data_panics(buffer)
               \/ block.data_len > Len(Buffer_data(buffer))
       THEN PanickedBuffer
       ELSE add_error_correction_slicing_from_zero(
                append_bytes(buffer,
                    Encoder_encode_ecc(block.ecc_len,
                        SubSeq(Buffer_data(buffer), 1, block.data_len))),
                next.it)

\* the loop `for block in blocks` of add_error_correction: the buffer after
\* the blocks that `blocks` still yields
RECURSIVE add_error_correction_blocks(_, _)
add_error_correction_blocks(buffer, blocks) ==
    LET next == BlockLengthIterator_next(blocks)
        block == next.item.block
    IN IF buffer.panicked \/ next.status = "Panic" THEN PanickedBuffer
       ELSE IF ~next.item.some THEN buffer
       ELSE IF Buffer_data_panics(buffer)
               \/ block.data_pos + block.data_len > Len(Buffer_data(buffer))
       THEN PanickedBuffer      \* the slice ends behind data()
       ELSE add_error_correction_blocks(
                append_bytes(buffer,
                    Encoder_encode_ecc(block.ecc_len,
                        SubSeq(Buffer_data(buffer), block.data_pos + 1,
                               block.data_pos + block.data_len))),
                next.it)

\* add_error_correction(data), data an EncodedData
add_error_correction(data) ==
    LET buffer == add_error_correction_blocks(
                      data.buffer,
                      BlockLengthIterator_new(data.version, data.error_correction))
    IN IF buffer.panicked THEN PanickedData(data)
       ELSE [status |-> "Ok", version |-> data.version,
             error_correction |-> data.error_correction, buffer |-> buffer]

\* tests::error_correction_encoding: "01234567" at 1-M
Data1M == SubSeq(PlacementCodewords, 1, 16)

\* tests::error_correction_encoding_5q: the data codewords and the result
Data5Q ==
    <<67, 85, 70, 134, 87, 38, 85, 194, 119, 50, 6, 18, 6, 103, 38, 246, 246, 66, 7, 118,
      134, 242, 7, 38, 86, 22, 198, 199, 146, 6, 182, 230, 247, 119, 50, 7, 118, 134, 87, 38,
      82, 6, 134, 151, 50, 7, 70, 247, 118, 86, 194, 6, 151, 50, 16, 236, 17, 236, 17, 236,
      17, 236>>

Ecc5Q ==
    <<213, 199, 11, 45, 115, 247, 241, 223, 229, 248, 154, 117, 154,
      111, 86, 161, 111, 39, 87, 204, 96, 60, 202, 182, 124, 157, 200, 134, 27, 129, 209,
      17, 163, 163, 120, 133, 148, 116, 177, 212, 76, 133, 75, 242, 238, 76, 195, 230,
      189, 10, 108, 240, 192, 141, 235, 159, 5, 173, 24, 147, 59, 33, 106, 40, 255, 172,
      82, 2, 131, 32, 178, 236>>

\* the data codewords handed in: n bytes of a kind
EccDataKinds == {"test", "zeros", "squares"}

EccData(kind, version, error_correction, n) ==
    IF kind = "test" /\ version = 1 /\ error_correction = "Medium" THEN Data1M
    ELSE IF kind = "test" /\ version = 5 /\ error_correction = "Quartile" THEN Data5Q
    ELSE IF kind = "zeros" THEN [i \in 1..n |-> 0]
    ELSE IF kind = "squares" THEN [i \in 1..n |-> (i * i + 3) % 256]
    ELSE [i \in 1..n |-> FillByte(i)]

\* an EncodedData whose buffer holds data_codeword_count codewords; for a
\* version outside the tables, the 16 codewords of the test
InitEcc ==
    /\ EncodingIdle
    /\ BufferIdle
    /\ UnitsIdle
    /\ placing = Idle /\ position = Idle /\ interleave = Idle /\ proportion = Idle
    /\ \E version \in 0..MaxEccVersion, error_correction \in ErrorCorrectionLevel,
          kind \in EccDataKinds :
          LET n == IF data_codeword_count_panics(version, error_correction)
                   THEN Len(Data1M)
                   ELSE data_codeword_count(version, error_correction)
              data == [version |-> version, error_correction |-> error_correction,
                       buffer |-> append_bytes(Buffer_new,
                                      EccData(kind, version, error_correction, n))]
          IN codewords = [data |-> data, status |-> "new", corrected |-> data]

\* add_error_correction(data)
AddErrorCorrection ==
    /\ codewords.status = "new"
    /\ LET corrected == add_error_correction(codewords.data)
       IN codewords' = [codewords EXCEPT !.status = corrected.status,
                                         !.corrected = corrected]
    /\ UNCHANGED <<encodingVars, bufferVars, unitVars,
                   placing, position, interleave, proportion>>

NextEcc == AddErrorCorrection

SpecEcc == InitEcc /\ [][NextEcc]_vars

\* the value at x of the polynomial whose coefficients, the highest power
\* first, are acc followed by the bytes lo..hi of a sequence
RECURSIVE PolyEval(_, _, _, _, _)
PolyEval(acc, bytes, lo, hi, x) ==
    IF lo > hi \/ acc < 0 THEN acc
    ELSE IF lo = hi THEN ByteXor(gf_mul(acc, x), bytes[lo])
    ELSE LET mid == (lo + hi) \div 2
         IN PolyEval(PolyEval(acc, bytes, lo, mid, x), bytes, mid + 1, hi, x)

\* g(x) divides the polynomial of the bytes: every root alpha^i of g,
\* i = 0..ecc_len - 1, is a root of it
DivisibleByGenerator(bytes, ecc_len) ==
    \A i \in 0..(ecc_len - 1) : PolyEval(0, bytes, 1, Len(bytes), gf_exp(i)) = 0

\* the data codewords of block `block_number` (from 0): the first blocks
\* hold floor(D / B) codewords, the last D mod B blocks one more
BlockDataOf(bytes, data_len, block_count, block_number) ==
    LET short == data_len \div block_count
        long_from == block_count - (data_len % block_count)
        start == block_number * short
                    + (IF block_number > long_from THEN block_number - long_from ELSE 0)
        len == IF block_number >= long_from THEN short + 1 ELSE short
    IN SubSeq(bytes, start + 1, start + len)

\* C22: add_error_correction leaves the data codewords as they are and
\* appends, block after block, ecc_len bytes that are the remainder of the
\* block's data followed by ecc_len zero bytes divided by g(x); the result
\* holds total_codeword_count bytes; for "01234567" at 1-M the bytes
\* appended are A5 24 D4 C1 ED 36 C7 87 2C 55
C22_EccIsRemainder ==
    (codewords.status # "new"
        /\ ~data_codeword_count_panics(codewords.data.version, codewords.data.error_correction))
        => LET version == codewords.data.version
               level == codewords.data.error_correction
               count == error_correction_codeword_blocks_count(version, level)
               ecc_len == count[1] \div count[2]
               data_len == data_codeword_count(version, level)
               before == Buffer_data(codewords.data.buffer)
               after == Buffer_data(codewords.corrected.buffer)
               ecc_of(b) == SubSeq(after, data_len + b * ecc_len + 1,
                                   data_len + (b + 1) * ecc_len)
           IN /\ codewords.status = "Ok"
              /\ Len(after) = total_codeword_count(version)
              /\ codewords.corrected.buffer.bit_len = 8 * total_codeword_count(version)
              /\ SubSeq(after, 1, data_len) = before
              /\ \A b \in 0..(count[2] - 1) :
                    /\ Len(ecc_of(b)) = ecc_len
                    /\ DivisibleByGenerator(
                           BlockDataOf(before, data_len, count[2], b) \o ecc_of(b), ecc_len)
              /\ before = Data1M
                    => SubSeq(after, data_len + 1, Len(after))
                          = <<165, 36, 212, 193, 237, 54, 199, 135, 44, 85>>
              /\ before = Data5Q => SubSeq(after, data_len + 1, Len(after)) = Ecc5Q

\* add_error_correction returned for the four blocks of 5-Q, two of 15 and
\* two of 16 data codewords
C22_Witness ==
    /\ codewords.status = "Ok"
    /\ codewords.data.version = 5
    /\ codewords.data.error_correction = "Quartile"
    /\ Buffer_data(codewords.data.buffer) = Data5Q
    /\ Len(Buffer_data(codewords.corrected.buffer)) = Len(Data5Q) + Len(Ecc5Q)

---------------------------------------------------------------------------
(* The lengths of the blocks (SpecBlocks) *)

\* C24: with r = data_codeword_count mod block_count, the blocks returned
\* are floor(D / B) data codewords long but for the last r blocks, which
\* are one codeword longer
C24_LastBlocksLonger ==
    (BlockVersionSupported /\ block_iter.status = "None")
        => LET version == block_iter.it.version
               level == block_iter.it.error_correction
               block_count == error_correction_codeword_blocks_count(version, level)[2]
               data_len == data_codeword_count(version, level)
               r == data_len % block_count
               blocks == block_iter.returned
           IN /\ Len(blocks) = block_count
              /\ \A i \in 1..Len(blocks) :
                    blocks[i].data_len = IF i - 1 <= block_count - r - 1
                                         THEN data_len \div block_count
                                         ELSE (data_len \div block_count) + 1
              /\ Cardinality({ i \in 1..Len(blocks) :
                                 blocks[i].data_len = (data_len \div block_count) + 1 }) = r

\* next() returned None after the blocks of a version and level where data
\* codewords remain: two short blocks, then two longer ones
C24_Witness ==
    /\ BlockVersionSupported
    /\ block_iter.status = "None"
    /\ data_codeword_count(block_iter.it.version, block_iter.it.error_correction)
          % Len(block_iter.returned) = 2
    /\ block_iter.returned[2].data_len + 1 = block_iter.returned[3].data_len

---------------------------------------------------------------------------
(* src/src/blocks.rs: BlockIterator, BlockDataIterator, BlockEccIterator *)

\* the versions handed to BlockIterator::new are 1..MaxInterleaveVersion
MaxInterleaveVersion == 6

\* the calls of next() made after the first None
MaxInterleaveExtraCalls == 2

\* Option<&u8>: None, Some(&data[index])
NoCodeword == [some |-> FALSE, index |-> 0, value |-> 0]
SomeCodeword(data, index) == [some |-> TRUE, index |-> index, value |-> data[index + 1]]

\* BlockDataIterator::new: the slice data[0..data_len] panics when the
\* buffer is shorter
BlockDataIterator_new(data, version, error_correction) ==
    IF data_codeword_count_panics(version, error_correction)
    THEN [status |-> "Panic", data |-> <<>>,
          blocks |-> BlockLengthIterator_new(version, error_correction),
          data_offset |-> 0]
    ELSE LET data_len == data_codeword_count(version, error_correction)
         IN [status |-> IF data_len > Len(data) THEN "Panic" ELSE "Ok",
             data |-> SubSeq(data, 1, data_len),
             blocks |-> BlockLengthIterator_new(version, error_correction),
             data_offset |-> 0]

\* the one element of a singleton; { e(v) : v \in {d} } takes the value of
\* d once, however often e uses it
TheOnly(S) == CHOOSE v \in S : TRUE

\* a variant of next_block_length that ends at the first block that has no
\* codeword at data_offset
RECURSIVE BlockDataIterator_next_block_length_ending_early(_)
BlockDataIterator_next_block_length_ending_early(it) ==
    TheOnly({
        IF r.status = "Panic"
        THEN [status |-> "Panic", it |-> it, item |-> NoBlock]
        ELSE IF r.item.some
        THEN IF it.data_offset < r.item.block.data_len
             THEN [status |-> "Ok", it |-> [it EXCEPT !.blocks = r.it], item |-> r.item]
             ELSE [status |-> "Ok", it |-> [it EXCEPT !.blocks = r.it], item |-> NoBlock]
        ELSE BlockDataIterator_next_block_length_ending_early(
                 [it EXCEPT !.data_offset = it.data_offset + 1,
                            !.blocks = BlockLengthIterator_reset(r.it)])
        : r \in {BlockLengthIterator_next(it.blocks)} })

\* BlockDataIterator::next_block_length: the next block that has a codeword
\* at data_offset; after the last block data_offset grows by one and the
\* blocks start again
RECURSIVE BlockDataIterator_next_block_length(_)
BlockDataIterator_next_block_length(it) ==
    TheOnly({
        IF r.status = "Panic"
        THEN [status |-> "Panic", it |-> it, item |-> NoBlock]
        ELSE IF r.item.some
        THEN IF it.data_offset < r.item.block.data_len
             THEN [status |-> "Ok", it |-> [it EXCEPT !.blocks = r.it], item |-> r.item]
             ELSE IF r.item.block.block_number < r.item.block.block_count - 1
             THEN BlockDataIterator_next_block_length([it EXCEPT !.blocks = r.it])
             ELSE [status |-> "Ok", it |-> [it EXCEPT !.blocks = r.it], item |-> NoBlock]
        ELSE BlockDataIterator_next_block_length(
                 [it EXCEPT !.data_offset = it.data_offset + 1,
                            !.blocks = BlockLengthIterator_reset(r.it)])
        : r \in {BlockLengthIterator_next(it.blocks)} })

\* BlockDataIterator::next; the index panics outside the slice
BlockDataIterator_next(it) ==
    TheOnly({
        IF r.status = "Panic"
        THEN [status |-> "Panic", it |-> it, item |-> NoCodeword]
        ELSE IF r.item.some
        THEN IF r.item.block.data_pos + r.it.data_offset >= Len(r.it.data)
             THEN [status |-> "Panic", it |-> r.it, item |-> NoCodeword]
             ELSE [status |-> "Ok", it |-> r.it,
                   item |-> SomeCodeword(r.it.data,
                                         r.item.block.data_pos + r.it.data_offset)]
        ELSE [status |-> "Ok", it |-> r.it, item |-> NoCodeword]
        : r \in {BlockDataIterator_next_block_length(it)} })

\* BlockEccIterator::new
BlockEccIterator_new(data, version, error_correction) ==
    [data |-> data,
     blocks |-> BlockLengthIterator_new(version, error_correction),
     ecc_offset |-> 0]

\* self.blocks.next().or_else(|| { self.ecc_offset += 1; self.blocks.reset();
\* self.blocks.next() }): the iterator left behind and the Option
BlockEccIterator_next_block(it) ==
    TheOnly({
        IF r.status = "Panic" \/ r.item.some
        THEN [status |-> r.status, it |-> [it EXCEPT !.blocks = r.it], item |-> r.item]
        ELSE TheOnly({
                [status |-> again.status,
                 it |-> [it EXCEPT !.blocks = again.it, !.ecc_offset = it.ecc_offset + 1],
                 item |-> again.item]
                : again \in {BlockLengthIterator_next(BlockLengthIterator_reset(r.it))} })
        : r \in {BlockLengthIterator_next(it.blocks)} })

\* BlockEccIterator::next: after the last block ecc_offset grows by one and
\* the blocks start again; unwrap() panics on None
BlockEccIterator_next(it) ==
    TheOnly({
        IF r.status = "Panic" \/ ~r.item.some
        THEN [status |-> "Panic", it |-> it, item |-> NoCodeword]
        ELSE IF /\ r.it.ecc_offset < r.item.block.ecc_len
                /\ r.item.block.ecc_pos + r.it.ecc_offset < Len(it.data)
        THEN [status |-> "Ok", it |-> r.it,
              item |-> SomeCodeword(it.data, r.item.block.ecc_pos + r.it.ecc_offset)]
        ELSE [status |-> "Ok", it |-> r.it, item |-> NoCodeword]
        : r \in {BlockEccIterator_next_block(it)} })

\* BlockIterator::new: data_iter.chain(ecc_iter)
BlockIterator_new(data, version, error_correction) ==
    TheOnly({
        [status |-> data_iter.status,
         a |-> [some |-> TRUE, it |-> data_iter],
         b |-> BlockEccIterator_new(data, version, error_correction)]
        : data_iter \in {BlockDataIterator_new(data, version, error_correction)} })

\* the second half of Chain::next: self.b.next()
Chain_next_b(chain) ==
    TheOnly({
        IF second.status = "Panic"
        THEN [status |-> "Panic", chain |-> chain, item |-> NoCodeword]
        ELSE [status |-> "Ok", chain |-> [chain EXCEPT !.b = second.it],
              item |-> second.item]
        : second \in {BlockEccIterator_next(chain.b)} })

\* BlockIterator::next, which is Chain::next: the first iterator until it
\* returns None, then the second one
BlockIterator_next(chain) ==
    IF ~chain.a.some THEN Chain_next_b(chain)
    ELSE TheOnly({
            IF first.status = "Panic"
            THEN [status |-> "Panic", chain |-> chain, item |-> NoCodeword]
            ELSE IF first.item.some
            THEN [status |-> "Ok", chain |-> [chain EXCEPT !.a.it = first.it],
                  item |-> first.item]
            ELSE Chain_next_b([chain EXCEPT !.a.some = FALSE])
            : first \in {BlockDataIterator_next(chain.a.it)} })

\* the buffer of tests::block_iter_5q and the sequence the test expects
BlockIter5Q == Data5Q \o Ecc5Q

BlockIter5QExpected ==
    <<
       67, 246, 182, 70, 85, 246, 230, 247, 70, 66, 247, 118, 134, 7, 119, 86,
       87, 118, 50, 194, 38, 134, 7, 6, 85, 242, 118, 151, 194, 7, 134, 50,
       119, 38, 87, 16, 50, 86, 38, 236, 6, 22, 82, 17, 18, 198, 6, 236,
       6, 199, 134, 17, 103, 146, 151, 236, 38, 6, 50, 17, 7, 236, 213, 87,
       148, 235, 199, 204, 116, 159, 11, 96, 177, 5, 45, 60, 212, 173, 115, 202,
       76, 24, 247, 182, 133, 147, 241, 124, 75, 59, 223, 157, 242, 33, 229, 200,
       238, 106, 248, 134, 76, 40, 154, 27, 195, 255, 117, 129, 230, 172, 154, 209,
       189, 82, 111, 17, 10, 2, 86, 163, 108, 131, 161, 163, 240, 32, 111, 120,
       192, 178, 39, 133, 141, 236 >>

\* the buffers: the codeword at index i is i, or the buffer of the test
InterleaveBuffers == {"indices", "test"}

InterleaveBuffer(kind, version) ==
    IF kind = "test" THEN BlockIter5Q
    ELSE [i \in 1..total_codeword_count(version) |-> i - 1]

InitInterleave ==
    /\ EncodingIdle
    /\ BufferIdle
    /\ UnitsIdle
    /\ placing = Idle /\ position = Idle /\ codewords = Idle /\ proportion = Idle
    /\ \E version \in 1..MaxInterleaveVersion, error_correction \in ErrorCorrectionLevel,
          kind \in InterleaveBuffers :
          /\ kind = "test" => (version = 5 /\ error_correction = "Quartile")
          /\ \E data \in {InterleaveBuffer(kind, version)} :
             \E chain \in {BlockIterator_new(data, version, error_correction)} :
                interleave = [version |-> version, error_correction |-> error_correction,
                              kind |-> kind, data |-> data,
                              chain |-> chain,
                              status |-> IF chain.status = "Panic" THEN "Panic" ELSE "new",
                              yielded |-> <<>>, indices |-> <<>>,
                              nones |-> 0]

\* iter.next(); `yielded` keeps the codewords returned and `indices` where
\* in the buffer they are
InterleaveNext ==
    /\ interleave.status # "Panic"
    /\ interleave.nones <= MaxInterleaveExtraCalls
    /\ \E r \in {BlockIterator_next(interleave.chain)} :
          interleave' =
            [interleave EXCEPT
                !.chain = r.chain,
                !.status = IF r.status = "Panic" THEN "Panic"
                           ELSE IF r.item.some THEN "Some" ELSE "None",
                !.yielded = IF r.status = "Ok" /\ r.item.some
                            THEN Append(interleave.yielded, r.item.value)
                            ELSE interleave.yielded,
                !.indices = IF r.status = "Ok" /\ r.item.some
                            THEN Append(interleave.indices, r.item.index)
                            ELSE interleave.indices,
                !.nones = IF r.status = "Ok" /\ ~r.item.some
                          THEN interleave.nones + 1
                          ELSE interleave.nones]
    /\ UNCHANGED <<encodingVars, bufferVars, unitVars, placing, position, codewords, proportion>>

NextInterleave == InterleaveNext

SpecInterleave == InitInterleave /\ [][NextInterleave]_vars

\* the blocks of a version and level, as BlockLengthIterator returns them
RECURSIVE BlocksOf(_, _)
BlocksOf(it, blocks) ==
    LET r == BlockLengthIterator_next(it)
    IN IF r.status = "Ok" /\ r.item.some
       THEN BlocksOf(r.it, Append(blocks, r.item.block))
       ELSE blocks

\* the buffer indices of the codewords at offset j of the blocks i..n that
\* have one, in the order of the blocks
RECURSIVE IndicesAtOffset(_, _, _, _, _)
IndicesAtOffset(blocks, i, j, pos_field, len_field) ==
    IF i > Len(blocks) THEN <<>>
    ELSE (IF j < blocks[i][len_field] THEN <<blocks[i][pos_field] + j>> ELSE <<>>)
            \o IndicesAtOffset(blocks, i + 1, j, pos_field, len_field)

\* the interleaved indices for the offsets j..last
RECURSIVE InterleavedFrom(_, _, _, _, _)
InterleavedFrom(blocks, j, last, pos_field, len_field) ==
    IF j > last THEN <<>>
    ELSE IndicesAtOffset(blocks, 1, j, pos_field, len_field)
            \o InterleavedFrom(blocks, j + 1, last, pos_field, len_field)

\* the order of the symbol: the data codewords interleaved, then the error
\* correction codewords interleaved
InterleavedIndices(version, error_correction) ==
    LET blocks == BlocksOf(BlockLengthIterator_new(version, error_correction), <<>>)
    IN InterleavedFrom(blocks, 0, data_codeword_count(version, error_correction),
                       "data_pos", "data_len")
         \o InterleavedFrom(blocks, 0,
                            error_correction_codeword_blocks_count(version, error_correction)[1],
                            "ecc_pos", "ecc_len")

InterleaveSupported ==
    ~data_codeword_count_panics(interleave.version, interleave.error_correction)

\* C23: for every supported (version, level) and a buffer of
\* total_codeword_count bytes, the iterator never panics, what it has
\* yielded is a prefix of the interleaved order (for j = 0, 1, ..., for each
\* block in order, the j-th data codeword of the block if it exists, then
\* the error correction codewords the same way), and once it returns None it
\* has yielded total_codeword_count codewords, every buffer index once, and
\* goes on returning None
C23_Interleaved ==
    InterleaveSupported
        => LET expected == InterleavedIndices(interleave.version, interleave.error_correction)
               total == total_codeword_count(interleave.version)
               n == Len(interleave.indices)
           IN /\ interleave.status # "Panic"
              /\ Len(expected) = total
              /\ n <= total
              /\ interleave.indices = SubSeq(expected, 1, n)
              /\ \A i \in 1..n : interleave.yielded[i] = interleave.data[interleave.indices[i] + 1]
              /\ interleave.nones > 0
                    => /\ n = total
                       /\ interleave.status = "None"
                       /\ { interleave.indices[i] : i \in 1..n } = 0..(total - 1)
              /\ (interleave.kind = "test" /\ interleave.nones > 0)
                    => interleave.yielded = BlockIter5QExpected

\* the iterator over a version 5-Q buffer, where the blocks differ in
\* length, went on returning None after it had yielded every codeword
C23_Witness ==
    /\ interleave.version = 5
    /\ interleave.error_correction = "Quartile"
    /\ interleave.kind = "indices"
    /\ interleave.nones = 2
    /\ Len(interleave.indices) = 134
    /\ SubSeq(interleave.indices, 59, 64) = <<44, 60, 45, 61, 62, 80>>

---------------------------------------------------------------------------
(* The mask patterns (SpecMask) *)

\* the table of the mask patterns: the predicate of a reference at row x,
\* column y
MaskPredicate(reference, x, y) ==
    LET xy == x * y
    IN CASE reference = 0 -> (x + y) % 2 = 0
         [] reference = 1 -> x % 2 = 0
         [] reference = 2 -> y % 3 = 0
         [] reference = 3 -> (x + y) % 3 = 0
         [] reference = 4 -> ((x \div 2) + (y \div 3)) % 2 = 0
         [] reference = 5 -> (xy % 2) + (xy % 3) = 0
         [] reference = 6 -> ((xy % 2) + (xy % 3)) % 2 = 0
         [] reference = 7 -> (((x + y) % 2) + (xy % 3)) % 2 = 0

\* tests::mask_pattern0 .. mask_pattern7: the renderings asserted for the
\* white matrix, a line for every row
MaskPatternRendering ==
    <<<<<<"1", "0", "1", "0", "1", "0", "1", "0", "1", "0", "1", "0", "1", "0", "1", "0", "1", "0", "1", "0", "1">>,
       <<"0", "1", "0", "1", "0", "1", "0", "1", "0", "1", "0", "1", "0", "1", "0", "1", "0", "1", "0", "1", "0">>,
       <<"1", "0", "1", "0", "1", "0", "1", "0", "1", "0", "1", "0", "1", "0", "1", "0", "1", "0", "1", "0", "1">>,
       <<"0", "1", "0", "1", "0", "1", "0", "1", "0", "1", "0", "1", "0", "1", "0", "1", "0", "1", "0", "1", "0">>,
       <<"1", "0", "1", "0", "1", "0", "1", "0", "1", "0", "1", "0", "1", "0", "1", "0", "1", "0", "1", "0", "1">>,
       <<"0", "1", "0", "1", "0", "1", "0", "1", "0", "1", "0", "1", "0", "1", "0", "1", "0", "1", "0", "1", "0">>,
       <<"1", "0", "1", "0", "1", "0", "1", "0", "1", "0", "1", "0", "1", "0", "1", "0", "1", "0", "1", "0", "1">>,
       <<"0", "1", "0", "1", "0", "1", "0", "1", "0", "1", "0", "1", "0", "1", "0", "1", "0", "1", "0", "1", "0">>,
       <<"1", "0", "1", "0", "1", "0", "1", "0", "1", "0", "1", "0", "1", "0", "1", "0", "1", "0", "1", "0", "1">>,
       <<"0", "1", "0", "1", "0", "1", "0", "1", "0", "1", "0", "1", "0", "1", "0", "1", "0", "1", "0", "1", "0">>,
       <<"1", "0", "1", "0", "1", "0", "1", "0", "1", "0", "1", "0", "1", "0", "1", "0", "1", "0", "1", "0", "1">>,
       <<"0", "1", "0", "1", "0", "1", "0", "1", "0", "1", "0", "1", "0", "1", "0", "1", "0", "1", "0", "1", "0">>,
       <<"1", "0", "1", "0", "1", "0", "1", "0", "1", "0", "1", "0", "1", "0", "1", "0", "1", "0", "1", "0", "1">>,
       <<"0", "1", "0", "1", "0", "1", "0", "1", "0", "1", "0", "1", "0", "1", "0", "1", "0", "1", "0", "1", "0">>,
       <<"1", "0", "1", "0", "1", "0", "1", "0", "1", "0", "1", "0", "1", "0", "1", "0", "1", "0", "1", "0", "1">>,
       <<"0", "1", "0", "1", "0", "1", "0", "1", "0", "1", "0", "1", "0", "1", "0", "1", "0", "1", "0", "1", "0">>,
       <<"1", "0", "1", "0", "1", "0", "1", "0", "1", "0", "1", "0", "1", "0", "1", "0", "1", "0", "1", "0", "1">>,
       <<"0", "1", "0", "1", "0", "1", "0", "1", "0", "1", "0", "1", "0", "1", "0", "1", "0", "1", "0", "1", "0">>,
       <<"1", "0", "1", "0", "1", "0", "1", "0", "1", "0", "1", "0", "1", "0", "1", "0", "1", "0", "1", "0", "1">>,
       <<"0", "1", "0", "1", "0", "1", "0", "1", "0", "1", "0", "1", "0", "1", "0", "1", "0", "1", "0", "1", "0">>,
       <<"1", "0", "1", "0", "1", "0", "1", "0", "1", "0", "1", "0", "1", "0", "1", "0", "1", "0", "1", "0", "1">>>>,
      <<<<"1", "1", "1", "1", "1", "1", "1", "1", "1", "1", "1", "1", "1", "1", "1", "1", "1", "1", "1", "1", "1">>,
       <<"0", "0", "0", "0", "0", "0", "0", "0", "0", "0", "0", "0", "0", "0", "0", "0", "0", "0", "0", "0", "0">>,
       <<"1", "1", "1", "1", "1", "1", "1", "1", "1", "1", "1", "1", "1", "1", "1", "1", "1", "1", "1", "1", "1">>,
       <<"0", "0", "0", "0", "0", "0", "0", "0", "0", "0", "0", "0", "0", "0", "0", "0", "0", "0", "0", "0", "0">>,
       <<"1", "1", "1", "1", "1", "1", "1", "1", "1", "1", "1", "1", "1", "1", "1", "1", "1", "1", "1", "1", "1">>,
       <<"0", "0", "0", "0", "0", "0", "0", "0", "0", "0", "0", "0", "0", "0", "0", "0", "0", "0", "0", "0", "0">>,
       <<"1", "1", "1", "1", "1", "1", "1", "1", "1", "1", "1", "1", "1", "1", "1", "1", "1", "1", "1", "1", "1">>,
       <<"0", "0", "0", "0", "0", "0", "0", "0", "0", "0", "0", "0", "0", "0", "0", "0", "0", "0", "0", "0", "0">>,
       <<"1", "1", "1", "1", "1", "1", "1", "1", "1", "1", "1", "1", "1", "1", "1", "1", "1", "1", "1", "1", "1">>,
       <<"0", "0", "0", "0", "0", "0", "0", "0", "0", "0", "0", "0", "0", "0", "0", "0", "0", "0", "0", "0", "0">>,
       <<"1", "1", "1", "1", "1", "1", "1", "1", "1", "1", "1", "1", "1", "1", "1", "1", "1", "1", "1", "1", "1">>,
       <<"0", "0", "0", "0", "0", "0", "0", "0", "0", "0", "0", "0", "0", "0", "0", "0", "0", "0", "0", "0", "0">>,
       <<"1", "1", "1", "1", "1", "1", "1", "1", "1", "1", "1", "1", "1", "1", "1", "1", "1", "1", "1", "1", "1">>,
       <<"0", "0", "0", "0", "0", "0", "0", "0", "0", "0", "0", "0", "0", "0", "0", "0", "0", "0", "0", "0", "0">>,
       <<"1", "1", "1", "1", "1", "1", "1", "1", "1", "1", "1", "1", "1", "1", "1", "1", "1", "1", "1", "1", "1">>,
       <<"0", "0", "0", "0", "0", "0", "0", "0", "0", "0", "0", "0", "0", "0", "0", "0", "0", "0", "0", "0", "0">>,
       <<"1", "1", "1", "1", "1", "1", "1", "1", "1", "1", "1", "1", "1", "1", "1", "1", "1", "1", "1", "1", "1">>,
       <<"0", "0", "0", "0", "0", "0", "0", "0", "0", "0", "0", "0", "0", "0", "0", "0", "0", "0", "0", "0", "0">>,
       <<"1", "1", "1", "1", "1", "1", "1", "1", "1", "1", "1", "1", "1", "1", "1", "1", "1", "1", "1", "1", "1">>,
       <<"0", "0", "0", "0", "0", "0", "0", "0", "0", "0", "0", "0", "0", "0", "0", "0", "0", "0", "0", "0", "0">>,
       <<"1", "1", "1", "1", "1", "1", "1", "1", "1", "1", "1", "1", "1", "1", "1", "1", "1", "1", "1", "1", "1">>>>,
      <<<<"1", "0", "0", "1", "0", "0", "1", "0", "0", "1", "0", "0", "1", "0", "0", "1", "0", "0", "1", "0", "0">>,
       <<"1", "0", "0", "1", "0", "0", "1", "0", "0", "1", "0", "0", "1", "0", "0", "1", "0", "0", "1", "0", "0">>,
       <<"1", "0", "0", "1", "0", "0", "1", "0", "0", "1", "0", "0", "1", "0", "0", "1", "0", "0", "1", "0", "0">>,
       <<"1", "0", "0", "1", "0", "0", "1", "0", "0", "1", "0", "0", "1", "0", "0", "1", "0", "0", "1", "0", "0">>,
       <<"1", "0", "0", "1", "0", "0", "1", "0", "0", "1", "0", "0", "1", "0", "0", "1", "0", "0", "1", "0", "0">>,
       <<"1", "0", "0", "1", "0", "0", "1", "0", "0", "1", "0", "0", "1", "0", "0", "1", "0", "0", "1", "0", "0">>,
       <<"1", "0", "0", "1", "0", "0", "1", "0", "0", "1", "0", "0", "1", "0", "0", "1", "0", "0", "1", "0", "0">>,
       <<"1", "0", "0", "1", "0", "0", "1", "0", "0", "1", "0", "0", "1", "0", "0", "1", "0", "0", "1", "0", "0">>,
       <<"1", "0", "0", "1", "0", "0", "1", "0", "0", "1", "0", "0", "1", "0", "0", "1", "0", "0", "1", "0", "0">>,
       <<"1", "0", "0", "1", "0", "0", "1", "0", "0", "1", "0", "0", "1", "0", "0", "1", "0", "0", "1", "0", "0">>,
       <<"1", "0", "0", "1", "0", "0", "1", "0", "0", "1", "0", "0", "1", "0", "0", "1", "0", "0", "1", "0", "0">>,
       <<"1", "0", "0", "1", "0", "0", "1", "0", "0", "1", "0", "0", "1", "0", "0", "1", "0", "0", "1", "0", "0">>,
       <<"1", "0", "0", "1", "0", "0", "1", "0", "0", "1", "0", "0", "1", "0", "0", "1", "0", "0", "1", "0", "0">>,
       <<"1", "0", "0", "1", "0", "0", "1", "0", "0", "1", "0", "0", "1", "0", "0", "1", "0", "0", "1", "0", "0">>,
       <<"1", "0", "0", "1", "0", "0", "1", "0", "0", "1", "0", "0", "1", "0", "0", "1", "0", "0", "1", "0", "0">>,
       <<"1", "0", "0", "1", "0", "0", "1", "0", "0", "1", "0", "0", "1", "0", "0", "1", "0", "0", "1", "0", "0">>,
       <<"1", "0", "0", "1", "0", "0", "1", "0", "0", "1", "0", "0", "1", "0", "0", "1", "0", "0", "1", "0", "0">>,
       <<"1", "0", "0", "1", "0", "0", "1", "0", "0", "1", "0", "0", "1", "0", "0", "1", "0", "0", "1", "0", "0">>,
       <<"1", "0", "0", "1", "0", "0", "1", "0", "0", "1", "0", "0", "1", "0", "0", "1", "0", "0", "1", "0", "0">>,
       <<"1", "0", "0", "1", "0", "0", "1", "0", "0", "1", "0", "0", "1", "0", "0", "1", "0", "0", "1", "0", "0">>,
       <<"1", "0", "0", "1", "0", "0", "1", "0", "0", "1", "0", "0", "1", "0", "0", "1", "0", "0", "1", "0", "0">>>>,
      <<<<"1", "0", "0", "1", "0", "0", "1", "0", "0", "1", "0", "0", "1", "0", "0", "1", "0", "0", "1", "0", "0">>,
       <<"0", "0", "1", "0", "0", "1", "0", "0", "1", "0", "0", "1", "0", "0", "1", "0", "0", "1", "0", "0", "1">>,
       <<"0", "1", "0", "0", "1", "0", "0", "1", "0", "0", "1", "0", "0", "1", "0", "0", "1", "0", "0", "1", "0">>,
       <<"1", "0", "0", "1", "0", "0", "1", "0", "0", "1", "0", "0", "1", "0", "0", "1", "0", "0", "1", "0", "0">>,
       <<"0", "0", "1", "0", "0", "1", "0", "0", "1", "0", "0", "1", "0", "0", "1", "0", "0", "1", "0", "0", "1">>,
       <<"0", "1", "0", "0", "1", "0", "0", "1", "0", "0", "1", "0", "0", "1", "0", "0", "1", "0", "0", "1", "0">>,
       <<"1", "0", "0", "1", "0", "0", "1", "0", "0", "1", "0", "0", "1", "0", "0", "1", "0", "0", "1", "0", "0">>,
       <<"0", "0", "1", "0", "0", "1", "0", "0", "1", "0", "0", "1", "0", "0", "1", "0", "0", "1", "0", "0", "1">>,
       <<"0", "1", "0", "0", "1", "0", "0", "1", "0", "0", "1", "0", "0", "1", "0", "0", "1", "0", "0", "1", "0">>,
       <<"1", "0", "0", "1", "0", "0", "1", "0", "0", "1", "0", "0", "1", "0", "0", "1", "0", "0", "1", "0", "0">>,
       <<"0", "0", "1", "0", "0", "1", "0", "0", "1", "0", "0", "1", "0", "0", "1", "0", "0", "1", "0", "0", "1">>,
       <<"0", "1", "0", "0", "1", "0", "0", "1", "0", "0", "1", "0", "0", "1", "0", "0", "1", "0", "0", "1", "0">>,
       <<"1", "0", "0", "1", "0", "0", "1", "0", "0", "1", "0", "0", "1", "0", "0", "1", "0", "0", "1", "0", "0">>,
       <<"0", "0", "1", "0", "0", "1", "0", "0", "1", "0", "0", "1", "0", "0", "1", "0", "0", "1", "0", "0", "1">>,
       <<"0", "1", "0", "0", "1", "0", "0", "1", "0", "0", "1", "0", "0", "1", "0", "0", "1", "0", "0", "1", "0">>,
       <<"1", "0", "0", "1", "0", "0", "1", "0", "0", "1", "0", "0", "1", "0", "0", "1", "0", "0", "1", "0", "0">>,
       <<"0", "0", "1", "0", "0", "1", "0", "0", "1", "0", "0", "1", "0", "0", "1", "0", "0", "1", "0", "0", "1">>,
       <<"0", "1", "0", "0", "1", "0", "0", "1", "0", "0", "1", "0", "0", "1", "0", "0", "1", "0", "0", "1", "0">>,
       <<"1", "0", "0", "1", "0", "0", "1", "0", "0", "1", "0", "0", "1", "0", "0", "1", "0", "0", "1", "0", "0">>,
       <<"0", "0", "1", "0", "0", "1", "0", "0", "1", "0", "0", "1", "0", "0", "1", "0", "0", "1", "0", "0", "1">>,
       <<"0", "1", "0", "0", "1", "0", "0", "1", "0", "0", "1", "0", "0", "1", "0", "0", "1", "0", "0", "1", "0">>>>,
      <<<<"1", "1", "1", "0", "0", "0", "1", "1", "1", "0", "0", "0", "1", "1", "1", "0", "0", "0", "1", "1", "1">>,
       <<"1", "1", "1", "0", "0", "0", "1", "1", "1", "0", "0", "0", "1", "1", "1", "0", "0", "0", "1", "1", "1">>,
       <<"0", "0", "0", "1", "1", "1", "0", "0", "0", "1", "1", "1", "0", "0", "0", "1", "1", "1", "0", "0", "0">>,
       <<"0", "0", "0", "1", "1", "1", "0", "0", "0", "1", "1", "1", "0", "0", "0", "1", "1", "1", "0", "0", "0">>,
       <<"1", "1", "1", "0", "0", "0", "1", "1", "1", "0", "0", "0", "1", "1", "1", "0", "0", "0", "1", "1", "1">>,
       <<"1", "1", "1", "0", "0", "0", "1", "1", "1", "0", "0", "0", "1", "1", "1", "0", "0", "0", "1", "1", "1">>,
       <<"0", "0", "0", "1", "1", "1", "0", "0", "0", "1", "1", "1", "0", "0", "0", "1", "1", "1", "0", "0", "0">>,
       <<"0", "0", "0", "1", "1", "1", "0", "0", "0", "1", "1", "1", "0", "0", "0", "1", "1", "1", "0", "0", "0">>,
       <<"1", "1", "1", "0", "0", "0", "1", "1", "1", "0", "0", "0", "1", "1", "1", "0", "0", "0", "1", "1", "1">>,
       <<"1", "1", "1", "0", "0", "0", "1", "1", "1", "0", "0", "0", "1", "1", "1", "0", "0", "0", "1", "1", "1">>,
       <<"0", "0", "0", "1", "1", "1", "0", "0", "0", "1", "1", "1", "0", "0", "0", "1", "1", "1", "0", "0", "0">>,
       <<"0", "0", "0", "1", "1", "1", "0", "0", "0", "1", "1", "1", "0", "0", "0", "1", "1", "1", "0", "0", "0">>,
       <<"1", "1", "1", "0", "0", "0", "1", "1", "1", "0", "0", "0", "1", "1", "1", "0", "0", "0", "1", "1", "1">>,
       <<"1", "1", "1", "0", "0", "0", "1", "1", "1", "0", "0", "0", "1", "1", "1", "0", "0", "0", "1", "1", "1">>,
       <<"0", "0", "0", "1", "1", "1", "0", "0", "0", "1", "1", "1", "0", "0", "0", "1", "1", "1", "0", "0", "0">>,
       <<"0", "0", "0", "1", "1", "1", "0", "0", "0", "1", "1", "1", "0", "0", "0", "1", "1", "1", "0", "0", "0">>,
       <<"1", "1", "1", "0", "0", "0", "1", "1", "1", "0", "0", "0", "1", "1", "1", "0", "0", "0", "1", "1", "1">>,
       <<"1", "1", "1", "0", "0", "0", "1", "1", "1", "0", "0", "0", "1", "1", "1", "0", "0", "0", "1", "1", "1">>,
       <<"0", "0", "0", "1", "1", "1", "0", "0", "0", "1", "1", "1", "0", "0", "0", "1", "1", "1", "0", "0", "0">>,
       <<"0", "0", "0", "1", "1", "1", "0", "0", "0", "1", "1", "1", "0", "0", "0", "1", "1", "1", "0", "0", "0">>,
       <<"1", "1", "1", "0", "0", "0", "1", "1", "1", "0", "0", "0", "1", "1", "1", "0", "0", "0", "1", "1", "1">>>>,
      <<<<"1", "1", "1", "1", "1", "1", "1", "1", "1", "1", "1", "1", "1", "1", "1", "1", "1", "1", "1", "1", "1">>,
       <<"1", "0", "0", "0", "0", "0", "1", "0", "0", "0", "0", "0", "1", "0", "0", "0", "0", "0", "1", "0", "0">>,
       <<"1", "0", "0", "1", "0", "0", "1", "0", "0", "1", "0", "0", "1", "0", "0", "1", "0", "0", "1", "0", "0">>,
       <<"1", "0", "1", "0", "1", "0", "1", "0", "1", "0", "1", "0", "1", "0", "1", "0", "1", "0", "1", "0", "1">>,
       <<"1", "0", "0", "1", "0", "0", "1", "0", "0", "1", "0", "0", "1", "0", "0", "1", "0", "0", "1", "0", "0">>,
       <<"1", "0", "0", "0", "0", "0", "1", "0", "0", "0", "0", "0", "1", "0", "0", "0", "0", "0", "1", "0", "0">>,
       <<"1", "1", "1", "1", "1", "1", "1", "1", "1", "1", "1", "1", "1", "1", "1", "1", "1", "1", "1", "1", "1">>,
       <<"1", "0", "0", "0", "0", "0", "1", "0", "0", "0", "0", "0", "1", "0", "0", "0", "0", "0", "1", "0", "0">>,
       <<"1", "0", "0", "1", "0", "0", "1", "0", "0", "1", "0", "0", "1", "0", "0", "1", "0", "0", "1", "0", "0">>,
       <<"1", "0", "1", "0", "1", "0", "1", "0", "1", "0", "1", "0", "1", "0", "1", "0", "1", "0", "1", "0", "1">>,
       <<"1", "0", "0", "1", "0", "0", "1", "0", "0", "1", "0", "0", "1", "0", "0", "1", "0", "0", "1", "0", "0">>,
       <<"1", "0", "0", "0", "0", "0", "1", "0", "0", "0", "0", "0", "1", "0", "0", "0", "0", "0", "1", "0", "0">>,
       <<"1", "1", "1", "1", "1", "1", "1", "1", "1", "1", "1", "1", "1", "1", "1", "1", "1", "1", "1", "1", "1">>,
       <<"1", "0", "0", "0", "0", "0", "1", "0", "0", "0", "0", "0", "1", "0", "0", "0", "0", "0", "1", "0", "0">>,
       <<"1", "0", "0", "1", "0", "0", "1", "0", "0", "1", "0", "0", "1", "0", "0", "1", "0", "0", "1", "0", "0">>,
       <<"1", "0", "1", "0", "1", "0", "1", "0", "1", "0", "1", "0", "1", "0", "1", "0", "1", "0", "1", "0", "1">>,
       <<"1", "0", "0", "1", "0", "0", "1", "0", "0", "1", "0", "0", "1", "0", "0", "1", "0", "0", "1", "0", "0">>,
       <<"1", "0", "0", "0", "0", "0", "1", "0", "0", "0", "0", "0", "1", "0", "0", "0", "0", "0", "1", "0", "0">>,
       <<"1", "1", "1", "1", "1", "1", "1", "1", "1", "1", "1", "1", "1", "1", "1", "1", "1", "1", "1", "1", "1">>,
       <<"1", "0", "0", "0", "0", "0", "1", "0", "0", "0", "0", "0", "1", "0", "0", "0", "0", "0", "1", "0", "0">>,
       <<"1", "0", "0", "1", "0", "0", "1", "0", "0", "1", "0", "0", "1", "0", "0", "1", "0", "0", "1", "0", "0">>>>,
      <<<<"1", "1", "1", "1", "1", "1", "1", "1", "1", "1", "1", "1", "1", "1", "1", "1", "1", "1", "1", "1", "1">>,
       <<"1", "1", "1", "0", "0", "0", "1", "1", "1", "0", "0", "0", "1", "1", "1", "0", "0", "0", "1", "1", "1">>,
       <<"1", "1", "0", "1", "1", "0", "1", "1", "0", "1", "1", "0", "1", "1", "0", "1", "1", "0", "1", "1", "0">>,
       <<"1", "0", "1", "0", "1", "0", "1", "0", "1", "0", "1", "0", "1", "0", "1", "0", "1", "0", "1", "0", "1">>,
       <<"1", "0", "1", "1", "0", "1", "1", "0", "1", "1", "0", "1", "1", "0", "1", "1", "0", "1", "1", "0", "1">>,
       <<"1", "0", "0", "0", "1", "1", "1", "0", "0", "0", "1", "1", "1", "0", "0", "0", "1", "1", "1", "0", "0">>,
       <<"1", "1", "1", "1", "1", "1", "1", "1", "1", "1", "1", "1", "1", "1", "1", "1", "1", "1", "1", "1", "1">>,
       <<"1", "1", "1", "0", "0", "0", "1", "1", "1", "0", "0", "0", "1", "1", "1", "0", "0", "0", "1", "1", "1">>,
       <<"1", "1", "0", "1", "1", "0", "1", "1", "0", "1", "1", "0", "1", "1", "0", "1", "1", "0", "1", "1", "0">>,
       <<"1", "0", "1", "0", "1", "0", "1", "0", "1", "0", "1", "0", "1", "0", "1", "0", "1", "0", "1", "0", "1">>,
       <<"1", "0", "1", "1", "0", "1", "1", "0", "1", "1", "0", "1", "1", "0", "1", "1", "0", "1", "1", "0", "1">>,
       <<"1", "0", "0", "0", "1", "1", "1", "0", "0", "0", "1", "1", "1", "0", "0", "0", "1", "1", "1", "0", "0">>,
       <<"1", "1", "1", "1", "1", "1", "1", "1", "1", "1", "1", "1", "1", "1", "1", "1", "1", "1", "1", "1", "1">>,
       <<"1", "1", "1", "0", "0", "0", "1", "1", "1", "0", "0", "0", "1", "1", "1", "0", "0", "0", "1", "1", "1">>,
       <<"1", "1", "0", "1", "1", "0", "1", "1", "0", "1", "1", "0", "1", "1", "0", "1", "1", "0", "1", "1", "0">>,
       <<"1", "0", "1", "0", "1", "0", "1", "0", "1", "0", "1", "0", "1", "0", "1", "0", "1", "0", "1", "0", "1">>,
       <<"1", "0", "1", "1", "0", "1", "1", "0", "1", "1", "0", "1", "1", "0", "1", "1", "0", "1", "1", "0", "1">>,
       <<"1", "0", "0", "0", "1", "1", "1", "0", "0", "0", "1", "1", "1", "0", "0", "0", "1", "1", "1", "0", "0">>,
       <<"1", "1", "1", "1", "1", "1", "1", "1", "1", "1", "1", "1", "1", "1", "1", "1", "1", "1", "1", "1", "1">>,
       <<"1", "1", "1", "0", "0", "0", "1", "1", "1", "0", "0", "0", "1", "1", "1", "0", "0", "0", "1", "1", "1">>,
       <<"1", "1", "0", "1", "1", "0", "1", "1", "0", "1", "1", "0", "1", "1", "0", "1", "1", "0", "1", "1", "0">>>>,
      <<<<"1", "0", "1", "0", "1", "0", "1", "0", "1", "0", "1", "0", "1", "0", "1", "0", "1", "0", "1", "0", "1">>,
       <<"0", "0", "0", "1", "1", "1", "0", "0", "0", "1", "1", "1", "0", "0", "0", "1", "1", "1", "0", "0", "0">>,
       <<"1", "0", "0", "0", "1", "1", "1", "0", "0", "0", "1", "1", "1", "0", "0", "0", "1", "1", "1", "0", "0">>,
       <<"0", "1", "0", "1", "0", "1", "0", "1", "0", "1", "0", "1", "0", "1", "0", "1", "0", "1", "0", "1", "0">>,
       <<"1", "1", "1", "0", "0", "0", "1", "1", "1", "0", "0", "0", "1", "1", "1", "0", "0", "0", "1", "1", "1">>,
       <<"0", "1", "1", "1", "0", "0", "0", "1", "1", "1", "0", "0", "0", "1", "1", "1", "0", "0", "0", "1", "1">>,
       <<"1", "0", "1", "0", "1", "0", "1", "0", "1", "0", "1", "0", "1", "0", "1", "0", "1", "0", "1", "0", "1">>,
       <<"0", "0", "0", "1", "1", "1", "0", "0", "0", "1", "1", "1", "0", "0", "0", "1", "1", "1", "0", "0", "0">>,
       <<"1", "0", "0", "0", "1", "1", "1", "0", "0", "0", "1", "1", "1", "0", "0", "0", "1", "1", "1", "0", "0">>,
       <<"0", "1", "0", "1", "0", "1", "0", "1", "0", "1", "0", "1", "0", "1", "0", "1", "0", "1", "0", "1", "0">>,
       <<"1", "1", "1", "0", "0", "0", "1", "1", "1", "0", "0", "0", "1", "1", "1", "0", "0", "0", "1", "1", "1">>,
       <<"0", "1", "1", "1", "0", "0", "0", "1", "1", "1", "0", "0", "0", "1", "1", "1", "0", "0", "0", "1", "1">>,
       <<"1", "0", "1", "0", "1", "0", "1", "0", "1", "0", "1", "0", "1", "0", "1", "0", "1", "0", "1", "0", "1">>,
       <<"0", "0", "0", "1", "1", "1", "0", "0", "0", "1", "1", "1", "0", "0", "0", "1", "1", "1", "0", "0", "0">>,
       <<"1", "0", "0", "0", "1", "1", "1", "0", "0", "0", "1", "1", "1", "0", "0", "0", "1", "1", "1", "0", "0">>,
       <<"0", "1", "0", "1", "0", "1", "0", "1", "0", "1", "0", "1", "0", "1", "0", "1", "0", "1", "0", "1", "0">>,
       <<"1", "1", "1", "0", "0", "0", "1", "1", "1", "0", "0", "0", "1", "1", "1", "0", "0", "0", "1", "1", "1">>,
       <<"0", "1", "1", "1", "0", "0", "0", "1", "1", "1", "0", "0", "0", "1", "1", "1", "0", "0", "0", "1", "1">>,
       <<"1", "0", "1", "0", "1", "0", "1", "0", "1", "0", "1", "0", "1", "0", "1", "0", "1", "0", "1", "0", "1">>,
       <<"0", "0", "0", "1", "1", "1", "0", "0", "0", "1", "1", "1", "0", "0", "0", "1", "1", "1", "0", "0", "0">>,
       <<"1", "0", "0", "0", "1", "1", "1", "0", "0", "0", "1", "1", "1", "0", "0", "0", "1", "1", "1", "0", "0">>>>>>

\* C25: for every reference 0..7 and every coordinate (row x, column y) of
\* the matrix, Masked::from inverts the module iff it is Filled and the
\* predicate of the table holds at (x, y); the white matrix is rendered as
\* the tests of the eight patterns assert
C25_MaskPredicates ==
    (masking.op = "Masked::from" /\ masking.masked.status = "Ok")
        => LET reference == masking.masked.mask_reference
           IN /\ reference \in 0..7
              /\ \A c \in MaskCoordinates :
                    LET before == ModuleAt(masking.matrix, c)
                        after == ModuleAt(masking.masked.matrix, c)
                    IN IF before.kind = "Filled" /\ MaskPredicate(reference, c[1], c[2])
                       THEN after = Filled(inverse(before.color))
                       ELSE after = before
              /\ masking.matrix = WhiteMatrix
                    => Matrix_fmt(masking.masked.matrix.data)
                          = MaskPatternRendering[reference + 1]

\* a pattern that tells rows from columns was applied to the white matrix:
\* the module at row 0, column 1 and the one at row 1, column 0 differ
C25_Witness ==
    /\ masking.op = "Masked::from"
    /\ masking.masked.status = "Ok"
    /\ masking.matrix = WhiteMatrix
    /\ masking.masked.mask_reference \in {1, 2, 4}
    /\ ModuleAt(masking.masked.matrix, <<0, 1>>) # ModuleAt(masking.masked.matrix, <<1, 0>>)

---------------------------------------------------------------------------
(* src/src/mask.rs: score_proportion *)

\* the matrices scored are those of the versions 1..MaxProportionVersion
MaxProportionVersion == 1

\* the modules a Black and a White count are made of
BlackModules == <<Filled("Black"), Static("Black")>>
WhiteModules == <<Filled("White"), Empty, Static("White"), Reserved>>

\* a matrix whose first black_count modules, row after row, are Black
ProportionMatrix(version, black_count) ==
    LET size == version_to_size(version)
    IN [version |-> version,
        error_correction |-> "Low",
        data |-> [size |-> Point_new(size, size),
                  data |-> [x \in 0..(size - 1) |->
                              [y \in 0..(size - 1) |->
                                 IF x * size + y < black_count
                                 THEN BlackModules[((x + y) % 2) + 1]
                                 ELSE WhiteModules[((x + y) % 4) + 1]]]]]

InitProportion ==
    /\ EncodingIdle
    /\ BufferIdle
    /\ UnitsIdle
    /\ placing = Idle /\ position = Idle /\ codewords = Idle /\ interleave = Idle
    /\ \E version \in 1..MaxProportionVersion :
          \E black_count \in 0..(version_to_size(version) * version_to_size(version)) :
             proportion = [masked |-> [status |-> "Ok", mask_reference |-> 0,
                                       matrix |-> ProportionMatrix(version, black_count)],
                           black_count |-> black_count,
                           status |-> "new",
                           score |-> 0]

\* masked.score_proportion()
ScoreProportion ==
    /\ proportion.status = "new"
    /\ proportion' = [proportion EXCEPT !.status = "scored",
                                        !.score = score_proportion(proportion.masked)]
    /\ UNCHANGED <<encodingVars, bufferVars, unitVars, placing, position, codewords, interleave>>

NextProportion == ScoreProportion

SpecProportion == InitProportion /\ [][NextProportion]_vars

\* 100 * b / total rounded to the nearest integer
RoundedPercentage(black_count, total) ==
    (200 * black_count + total) \div (2 * total)

\* C26: for every black-module count b of a size x size matrix,
\* score_proportion returns floor(k / 5) * 10 where p is 100 * b / total
\* rounded to the nearest integer and k = |p - 50|
C26_ProportionRounded ==
    proportion.status = "scored"
        => LET size == Array2D_size(proportion.masked.matrix.data)
               p == RoundedPercentage(proportion.black_count, size.x * size.y)
               k == IF p < 50 THEN 50 - p ELSE p - 50
           IN proportion.score = (k \div 5) * 10

---------------------------------------------------------------------------
(* The character count indicator (SpecEncode) *)

\* the bits before the character count indicator: the mode indicator, and
\* for Unicode the ECI header and the second mode indicator
CountIndicatorOffset == IF result.character_set = "Unicode" THEN 16 ELSE 4

CountIndicatorBits ==
    character_count_indicator_bit_length(result.version,
                                         to_encoding_mode(result.character_set))

\* the payload units written behind the character count indicator: the
\* digits, the characters, or the 8-bit codewords
PayloadUnits ==
    IF result.character_set \in {"Numeric", "Alphanumeric"}
    THEN Len(text)
    ELSE (result.segment_bit_len - CountIndicatorOffset - CountIndicatorBits) \div 8

---------------------------------------------------------------------------
(* src/src/qrcode.rs: impl Debug for QrCode (SpecDraw) *)

\* the character written for a colour: "#" stands for U+2588
QrCode_fmt_char(color) == IF color = "Black" THEN "#" ELSE "_"

\* impl Debug for QrCode: rows() yields a Row for every x below size.x, the
\* Row yields data[(x, y)] for every y below size.y; a line for every row
QrCode_fmt(qrcode) ==
    [line \in 1..Array2D_size(qrcode.data).x |->
        [char \in 1..Array2D_size(qrcode.data).y |->
            QrCode_fmt_char(Array2D_index(qrcode.data, [x |-> line - 1, y |-> char - 1]))]]

\* C30: for every position inside the symbol the colour yielded with the
\* coordinates (x, y), x the fastest-varying one, is the colour the Debug
\* rendering shows at line y - 4, character x - 4
C30_DrawMatchesDebug ==
    (iter.calls >= 1 /\ iter.last # Nothing)
        => LET item == iter.last[1]
           IN ~InBand(item.x, item.y)
                 => QrCode_fmt_char(item.color)
                       = QrCode_fmt(iter.it.qrcode)[item.y - BORDER_SIZE + 1][item.x - BORDER_SIZE + 1]

====
